---- MODULE Spec2Model ----
(***************************************************************************)
(* FluidDCA automation: one run of run-execution.ts (main) calling         *)
(* executeFluidDCA of alchemy-executor.ts, with the swap route fetcher of  *)
(* 1inch-quote.ts (src/unnamed/part_001).                                  *)
(*                                                                         *)
(* The chain, the oracles and the aggregator are the environment: every    *)
(* awaited call is answered nondeterministically (a value or a throw).     *)
(* `trace` is the history of the run: the external calls it issued and the *)
(* decisions of its two gates, in program order.                           *)
(*                                                                         *)
(* Spec         one run of run-execution.ts                                *)
(* SpecFair     Spec, with every enabled step eventually taken             *)
(* SpecTick     one iteration of the main loop of run.sh: run_with_retry   *)
(*              around the run, then status, notification and sensors      *)
(* SpecRetry    the same iteration around a command with any exit code     *)
(* SpecShutdown the main loop of run.sh with the shutdown signal           *)
(* SpecPart000 the iteration of the earlier script src/unnamed/part_000    *)
(* SpecTwice    two dry runs in a row with the same answers                *)
(* SpecAlloc    calculateSwapAllocations as a function of what it reads    *)
(* SpecCalldata buildExecuteCalldata as a function of its arguments        *)
(* SpecDebt     getVaultDebtFromResolver as a function of the response     *)
(*                                                                         *)
(* Units (TLC integers are 32 bit, so amounts are scaled):                 *)
(*   gas            in 10^5 gas units                                      *)
(*   gas price      in gwei                                                *)
(*   wei amounts    in 10^14 wei  (= 10^5 gas * 1 gwei)                    *)
(*   ETH/USD price  in whole USD                                           *)
(*   fiat cost      in 10^-4 USD  (the precision of toFixed(4))            *)
(*   EURe           in 10^-2 EURe, USDC debt in whole USDC,                *)
(*   EUR/USD and USDC/USD prices with 2 decimals.                          *)
(* A nullable value is a sequence of length at most one: << >> is          *)
(* null/undefined, <<v>> is the value v.                                   *)
(***************************************************************************)
EXTENDS Integers, Sequences, FiniteSets, TLC

VARIABLES
    pc,                 \* position of the single thread of control
    argv,               \* CLI arguments and environment of the process
    config,             \* ExecutorConfig built by main, << >> before
    eureBalance,        \* executeFluidDCA: eureBalance
    maxSlippageBps,     \* executeFluidDCA: maxSlippageBps
    vaultDebt,          \* calculateSwapAllocations: vaultDebt
    eurUsdPrice,        \* calculateSwapAllocations: eurUsdPrice
    usdcUsdPrice,       \* calculateSwapAllocations: usdcUsdPrice
    alloc,              \* { eureForUsdc, eureForEth }, << >> before
    usdcSwap,           \* SwapData | null
    ethSwap,            \* SwapData | null
    calldata,           \* buildExecuteCalldata result, << >> before
    gasEstimateResult,  \* estimateGasCostUsd result (filled step by step)
    txHash,             \* tx.hash once sendTransaction returned
    result,             \* ExecutionResult returned by executeFluidDCA
    thrown,             \* error propagated out of executeFluidDCA / main try
    exitCode,           \* process exit code, << >> while running
    trace,              \* history of external calls and gate decisions
    retry,              \* run.sh run_with_retry: attempt, return code, past attempts
    loop,               \* run.sh main loop: SHUTDOWN, EXIT_CODE, LAST_STATUS, what it sent
    resolverResponse    \* getVaultDebtFromResolver: outcome of provider.call, << >> before

vars == <<pc, argv, config, eureBalance, maxSlippageBps, vaultDebt, eurUsdPrice,
          usdcUsdPrice, alloc, usdcSwap, ethSwap, calldata, gasEstimateResult,
          txHash, result, thrown, exitCode, trace, retry, loop,
          resolverResponse>>

(***************************************************************************)
(* Bounds of the environment's answers                                     *)
(***************************************************************************)
MaxGasUnits == 3
MaxWalletBalance == 3
\* calculateSwapAllocations checked as a function: small debts and balances
MaxAllocDebt == 3
MaxAllocBalance == 5
\* buildExecuteCalldata checked as a function: route amounts
MaxRouteAmount == 3

(***************************************************************************)
(* Program constants                                                       *)
(***************************************************************************)
\* MAX_GAS_COST_USD = 0.5, in 10^-4 USD
MAX_GAS_COST_USD == 5000
\* feeData.gasPrice || 30000000000n, in gwei
DEFAULT_GAS_PRICE == 30
\* 10n ** 18n (EURe decimals), scaled to 2 decimals
EURE_SCALE == 100
\* 10n ** 6n (USDC decimals), scaled to 0 decimals
USDC_SCALE == 1
\* (eureNeededForDebt * 101n) / 100n: the 1% buffer
BUFFER_NUM == 101
BUFFER_DEN == 100
\* gas limit = estimate * 120n / 100n
GAS_LIMIT_NUM == 120
GAS_LIMIT_DEN == 100

ZeroAddress == "0x0000"
WalletAddress == "0xWALLET"
TOKENS == [EURE |-> "0xEURE", USDC |-> "0xUSDC", WETH |-> "0xWETH"]
ORACLES == [EUR_USD |-> "0xORACLE_EUR", USDC_USD |-> "0xORACLE_USDC",
            ETH_USD |-> "0xORACLE_ETH"]
VAULT_RESOLVER == "0xRESOLVER"

\* The contract address as the user configured it (any letter case) and the
\* addresses a decoded calldata can carry (ethers returns checksum case).
ConfiguredAddresses == {"0xdca", "0xDcA"}
DecodedReceivers == {"0xDcA", "0xEvIl"}

\* String.prototype.toLowerCase on the addresses of the model
toLowerCase(s) ==
    CASE s = "0xDcA" -> "0xdca"
      [] s = "0xEvIl" -> "0xevil"
      [] s = "0xWALLET" -> "0xwallet"
      [] OTHER -> s

\* a ?? d
Coalesce(opt, d) == IF opt = << >> THEN d ELSE opt[1]
\* a || d   (null and 0n are both falsy)
OrElse(opt, d) == IF opt = << >> \/ opt[1] = 0 THEN d ELSE opt[1]

(***************************************************************************)
(* Outcomes of a call: a returned value or a thrown error                  *)
(***************************************************************************)
Return(v) == [ok |-> TRUE, value |-> <<v>>, error |-> ""]
Throw(msg) == [ok |-> FALSE, value |-> << >>, error |-> msg]

(***************************************************************************)
(* 1inch-quote.ts: the swap route fetcher                                  *)
(***************************************************************************)
\* desc.dstReceiver.toLowerCase() !== expectedReceiver.toLowerCase(), negated
ReceiverMatches_unchecked(dstReceiver, expectedReceiver) == TRUE
ReceiverMatches(dstReceiver, expectedReceiver) ==
    toLowerCase(dstReceiver) = toLowerCase(expectedReceiver)

CRITICAL_MISMATCH == "CRITICAL: dstReceiver mismatch!"
INVALID_CALLDATA == "Invalid 1inch swap calldata format"
DECODE_ERROR == "could not decode result data"

\* The try block of parseSwapCalldata: decodeFunctionData, the receiver
\* check, and the returned triple.
parseSwapCalldata_try_noCheck(txdata, expectedReceiver) ==
    IF ~txdata.decodable
    THEN Throw(DECODE_ERROR)
    ELSE Return([executor |-> txdata.executor,
                 executorData |-> txdata.data,
                 swapDescription |-> txdata.desc])

parseSwapCalldata_try(txdata, expectedReceiver) ==
    IF ~txdata.decodable
    THEN Throw(DECODE_ERROR)
    ELSE IF ~ReceiverMatches(txdata.desc.dstReceiver, expectedReceiver)
         THEN Throw(CRITICAL_MISMATCH)
         ELSE Return([executor |-> txdata.executor,
                      executorData |-> txdata.data,
                      swapDescription |-> txdata.desc])

\* parseSwapCalldata: whatever the try block throws is caught and replaced
\* by one fixed error.
parseSwapCalldata(txdata, expectedReceiver) ==
    LET r == parseSwapCalldata_try(txdata, expectedReceiver)
    IN  IF r.ok THEN r ELSE Throw(INVALID_CALLDATA)

\* get1inchSwapData on the aggregator's answer `response`: axios throws on a
\* network error and on a non-2xx status and the catch rethrows that error;
\* an error of parseSwapCalldata is rethrown as it is.
get1inchSwapData(params, response) ==
    IF response.status # "ok"
    THEN Throw(response.status)
    ELSE parseSwapCalldata(response.txdata, params.receiver)

\* The answers of the aggregator to a request for `amount` of src -> dst.
\* The route content follows the request except for the receiver, which a
\* faulty or malicious aggregator may set to another address.
SwapDescriptions(src, dst, amount) ==
    { [srcToken |-> src, dstToken |-> dst, srcReceiver |-> "0xEXECUTOR",
       dstReceiver |-> r, amount |-> amount, minReturnAmount |-> 1,
       flags |-> 0] : r \in DecodedReceivers }

AggregatorResponses(src, dst, amount) ==
    { [status |-> "ok",
       txdata |-> [decodable |-> TRUE, executor |-> "0xEXECUTOR",
                   desc |-> d, data |-> "0xROUTE"]]
        : d \in SwapDescriptions(src, dst, amount) }
    \cup
    { [status |-> "ok",
       txdata |-> [decodable |-> FALSE, executor |-> ZeroAddress,
                   desc |-> CHOOSE d \in SwapDescriptions(src, dst, amount) : TRUE,
                   data |-> "0x"]],
      [status |-> "AxiosError: Request failed with status code 400",
       txdata |-> [decodable |-> FALSE, executor |-> ZeroAddress,
                   desc |-> CHOOSE d \in SwapDescriptions(src, dst, amount) : TRUE,
                   data |-> "0x"]],
      [status |-> "AxiosError: timeout of 30000ms exceeded",
       txdata |-> [decodable |-> FALSE, executor |-> ZeroAddress,
                   desc |-> CHOOSE d \in SwapDescriptions(src, dst, amount) : TRUE,
                   data |-> "0x"]] }

(***************************************************************************)
(* alchemy-executor.ts: pure parts                                         *)
(***************************************************************************)
\* BigInt division: the quotient is truncated toward zero (\div floors), and
\* a zero divisor throws a RangeError
abs(n) == IF n < 0 THEN -n ELSE n
bigintDiv(a, b) ==
    IF (a < 0) = (b < 0) THEN abs(a) \div abs(b) ELSE -(abs(a) \div abs(b))
DIVISION_BY_ZERO == "Division by zero"

\* if (vaultDebt === 0n) return { eureForUsdc: 0n, eureForEth: eureBalance }
zeroDebtAllocation_allToDebt(balance) == [eureForUsdc |-> balance, eureForEth |-> 0]
zeroDebtAllocation(balance) == [eureForUsdc |-> 0, eureForEth |-> balance]

\* (vaultDebt * usdcUsdPrice * 10n ** 18n) / (eurUsdPrice * 10n ** 6n)
eureNeededForDebt(debt, eurUsd, usdcUsd) ==
    bigintDiv(debt * usdcUsd * EURE_SCALE, eurUsd * USDC_SCALE)

\* (eureNeededForDebt * 101n) / 100n
eureForUsdcWithBuffer_noBuffer(needed) == needed
eureForUsdcWithBuffer(needed) == bigintDiv(needed * BUFFER_NUM, BUFFER_DEN)

\* calculateSwapAllocations on the values it read: the debt, and for a
\* nonzero debt the two oracle answers
calculateSwapAllocations_remainderOfNeeded(balance, debt, eurUsd, usdcUsd) ==
    IF debt = 0
    THEN Return(zeroDebtAllocation(balance))
    ELSE IF eurUsd * USDC_SCALE = 0
    THEN Throw(DIVISION_BY_ZERO)
    ELSE LET needed == eureNeededForDebt(debt, eurUsd, usdcUsd)
             withBuffer == eureForUsdcWithBuffer(needed)
         IN  IF withBuffer >= balance
             THEN Return([eureForUsdc |-> balance, eureForEth |-> 0])
             ELSE Return([eureForUsdc |-> withBuffer,
                          eureForEth |-> balance - needed])

calculateSwapAllocations_noClamp(balance, debt, eurUsd, usdcUsd) ==
    IF debt = 0
    THEN Return(zeroDebtAllocation(balance))
    ELSE IF eurUsd * USDC_SCALE = 0
    THEN Throw(DIVISION_BY_ZERO)
    ELSE LET needed == eureNeededForDebt(debt, eurUsd, usdcUsd)
             withBuffer == eureForUsdcWithBuffer(needed)
         IN  Return([eureForUsdc |-> withBuffer,
                     eureForEth |-> balance - withBuffer])

calculateSwapAllocations(balance, debt, eurUsd, usdcUsd) ==
    IF debt = 0
    THEN Return(zeroDebtAllocation(balance))
    ELSE IF eurUsd * USDC_SCALE = 0
    THEN Throw(DIVISION_BY_ZERO)
    ELSE LET needed == eureNeededForDebt(debt, eurUsd, usdcUsd)
             withBuffer == eureForUsdcWithBuffer(needed)
         IN  IF withBuffer >= balance
             THEN Return([eureForUsdc |-> balance, eureForEth |-> 0])
             ELSE Return([eureForUsdc |-> withBuffer,
                          eureForEth |-> balance - withBuffer])

emptySwapDesc ==
    [srcToken |-> TOKENS.EURE, dstToken |-> TOKENS.USDC,
     srcReceiver |-> ZeroAddress, dstReceiver |-> ZeroAddress,
     amount |-> 0, minReturnAmount |-> 0, flags |-> 0]

\* buildExecuteCalldata: the six arguments of execute(), in order
buildExecuteCalldata_placeholderKeepsRoute(usdc, eth) ==
    [usdcExecutor |-> IF usdc = << >> THEN ZeroAddress ELSE usdc[1].executor,
     usdcDesc     |-> IF usdc = << >> THEN emptySwapDesc ELSE usdc[1].swapDescription,
     usdcData     |-> IF usdc = << >> THEN "0x" ELSE usdc[1].executorData,
     ethExecutor  |-> IF eth = << >> THEN ZeroAddress ELSE eth[1].executor,
     ethDesc      |-> IF eth = << >>
                      THEN [emptySwapDesc EXCEPT !.dstToken = TOKENS.WETH]
                      ELSE eth[1].swapDescription,
     ethData      |-> IF eth = << >>
                      THEN (IF usdc = << >> THEN "0x" ELSE usdc[1].executorData)
                      ELSE eth[1].executorData]

buildExecuteCalldata(usdc, eth) ==
    [usdcExecutor |-> IF usdc = << >> THEN ZeroAddress ELSE usdc[1].executor,
     usdcDesc     |-> IF usdc = << >> THEN emptySwapDesc ELSE usdc[1].swapDescription,
     usdcData     |-> IF usdc = << >> THEN "0x" ELSE usdc[1].executorData,
     ethExecutor  |-> IF eth = << >> THEN ZeroAddress ELSE eth[1].executor,
     ethDesc      |-> IF eth = << >>
                      THEN [emptySwapDesc EXCEPT !.dstToken = TOKENS.WETH]
                      ELSE eth[1].swapDescription,
     ethData      |-> IF eth = << >> THEN "0x" ELSE eth[1].executorData]

\* estimateGasCostUsd: gasCostWei = gasEstimate * gasPrice, then in ETH,
\* then times the ETH/USD price
totalCostUsd_accumulated(gasEstimate, gasPrice, ethPriceUsd) ==
    (gasEstimate * gasPrice) * ethPriceUsd
    + (IF retry.history # << >> /\ retry.history[1].gasEstimateResult # << >>
       THEN retry.history[1].gasEstimateResult[1].totalCostUsd ELSE 0)

totalCostUsd(gasEstimate, gasPrice, ethPriceUsd) ==
    (gasEstimate * gasPrice) * ethPriceUsd

\* gasEstimateResult.totalCostUsd > MAX_GAS_COST_USD
CostExceedsLimit_nonStrict(cost) == cost >= MAX_GAS_COST_USD
CostExceedsLimit(cost) == cost > MAX_GAS_COST_USD

\* estimatedCost of the solvency gate
estimatedCost(gasEstimate, feeGasPrice) ==
    gasEstimate * OrElse(feeGasPrice, DEFAULT_GAS_PRICE)

\* walletBalance < estimatedCost
InsufficientBalance_nonStrict(walletBalance, cost) == walletBalance <= cost
InsufficientBalance(walletBalance, cost) == walletBalance < cost

\* parseArgs().dryRun
parseArgs_dryRun_argOnly(args) == args.dryRunFlag
parseArgs_dryRun(args) == args.dryRunFlag \/ args.DRY_RUN = "true"

(***************************************************************************)
(* History of external calls and gate decisions                            *)
(***************************************************************************)
\* a read-only contract / HTTP call to `to`
Read(op, to, ok) ==
    [op |-> op, to |-> to, data |-> << >>, from |-> "", gasLimit |-> << >>, ok |-> ok]
\* a read that returned `value`
ReadValue(op, to, value) ==
    [op |-> op, to |-> to, data |-> <<value>>, from |-> "", gasLimit |-> << >>,
     ok |-> TRUE]
\* estimateGas / call / sendTransaction of the payload `data`
Tx(op, to, data, from, gasLimit, ok) ==
    [op |-> op, to |-> to, data |-> <<data>>, from |-> from,
     gasLimit |-> gasLimit, ok |-> ok]

\* the aggregator's HTTP answer to the swap request for the leg to `dst`
Http(dst, response) ==
    [op |-> "1inch.swap", to |-> dst, data |-> <<response>>, from |-> "",
     gasLimit |-> << >>, ok |-> response.status = "ok"]
\* a gate's decision on the values it compared; ok = the run may proceed
Gate(op, values, ok) ==
    [op |-> op, to |-> "", data |-> <<values>>, from |-> "", gasLimit |-> << >>,
     ok |-> ok]

Called(op) == \E i \in 1..Len(trace) : trace[i].op = op
CountCalls(op) == Cardinality({i \in 1..Len(trace) : trace[i].op = op})

(***************************************************************************)
(* ExecutionResult                                                         *)
(***************************************************************************)
\* { success: false, error }: error is the sequence of the message's parts,
\* a fixed prefix first when the code puts one
Failure(parts) ==
    [success |-> FALSE, txHash |-> << >>, error |-> parts, gasUsed |-> << >>,
     eureSwapped |-> << >>, usdcReceived |-> << >>, wethReceived |-> << >>]

\* usdcSwap ? formatUnits(usdcSwap.swapDescription.minReturnAmount, ..) : "0"
minReturnOf(swap) == IF swap = << >> THEN 0 ELSE swap[1].swapDescription.minReturnAmount

Success(hash, gasUsed) ==
    [success |-> TRUE, txHash |-> hash, error |-> << >>, gasUsed |-> gasUsed,
     eureSwapped |-> <<eureBalance>>, usdcReceived |-> <<minReturnOf(usdcSwap)>>,
     wethReceived |-> <<minReturnOf(ethSwap)>>]

(***************************************************************************)
(* Environment answers                                                     *)
(***************************************************************************)
EureBalances == {0, 100000}
VaultDebts == {0, 600, 5000}
\* int256 answers of the EUR/USD feed: a broken feed can report zero or a
\* negative value
EurUsdPrices == {-108, 0, 108}
UsdcUsdPrices == {100}
SlippageBps == {50}
GasEstimates == 1..MaxGasUnits
FeeGasPrices == {<< >>, <<0>>, <<1>>, <<DEFAULT_GAS_PRICE>>}
EthUsdPrices == {2500, 2550}
WalletBalances == (0..MaxWalletBalance) \cup {2 * DEFAULT_GAS_PRICE}
RpcErrors == {"RPC error"}

(***************************************************************************)
(* Control transfers                                                       *)
(***************************************************************************)
\* process.exit(code)
Exit(code) == /\ pc' = "exit"
              /\ exitCode' = <<code>>

\* executeFluidDCA returns r to main
ReturnResult(r) == /\ pc' = "main_result"
                   /\ result' = <<r>>

\* an error propagates to the catch of main
ThrowToMain(msg) == /\ pc' = "main_catch"
                    /\ thrown' = <<msg>>

engineVars == <<eureBalance, maxSlippageBps, vaultDebt, eurUsdPrice, usdcUsdPrice, alloc,
                usdcSwap, ethSwap, calldata, gasEstimateResult, txHash>>

(***************************************************************************)
(* run-execution.ts: main                                                  *)
(***************************************************************************)
\* the main loop before run_with_retry has returned: SHUTDOWN=false, EXIT_CODE
\* and LAST_STATUS not assigned, nothing sent
IterationStart ==
    [SHUTDOWN |-> FALSE, EXIT_CODE |-> << >>, LAST_STATUS |-> << >>,
     options |-> << >>, notifications |-> << >>, published |-> << >>]

Init ==
    /\ pc = "main"
    /\ argv \in [help : BOOLEAN, checkOnly : BOOLEAN, dryRunFlag : BOOLEAN,
                 DRY_RUN : {"true", "false"}, envValid : BOOLEAN,
                 DCA_ADDRESS : ConfiguredAddresses]
    /\ config = << >>
    /\ eureBalance = 0
    /\ maxSlippageBps = 0
    /\ vaultDebt = 0
    /\ eurUsdPrice = 0
    /\ usdcUsdPrice = 0
    /\ alloc = << >>
    /\ usdcSwap = << >>
    /\ ethSwap = << >>
    /\ calldata = << >>
    /\ gasEstimateResult = << >>
    /\ txHash = << >>
    /\ result = << >>
    /\ thrown = << >>
    /\ exitCode = << >>
    /\ trace = << >>
    /\ retry = [attempt |-> 1, returned |-> << >>, history |-> << >>]
    /\ loop = IterationStart
    /\ resolverResponse = << >>

\* parseArgs, --help, validateEnvironment
MainStart ==
    /\ pc = "main"
    /\ IF argv.help THEN Exit(0)
       ELSE IF ~argv.envValid THEN Exit(1)
       ELSE pc' = "status_check" /\ UNCHANGED exitCode
    /\ UNCHANGED <<argv, loop, retry, resolverResponse, config, engineVars, result, thrown, trace>>

\* The calls of checkExecutionStatus, in order; the resolver read never throws
StatusCalls(addr, canExecute, resolverOk) ==
    << ReadValue("canExecute", addr, canExecute),
       Read("getBalances", addr, TRUE),
       Read("positionByNftId", VAULT_RESOLVER, resolverOk),
       Read("minEureThreshold", addr, TRUE) >>

\* the first n calls, the n-th one throwing
FailingPrefix(cs, n) ==
    [i \in 1..n |-> IF i = n THEN Read(cs[i].op, cs[i].to, FALSE) ELSE cs[i]]

\* checkExecutionStatus throws at its failAt-th call
MainStatusCheckThrows ==
    /\ pc = "status_check"
    /\ \E failAt \in {1, 2, 4}, canExecute \in BOOLEAN, resolverOk \in BOOLEAN,
          e \in RpcErrors :
          /\ trace' = trace \o FailingPrefix(StatusCalls(argv.DCA_ADDRESS, canExecute,
                                                         resolverOk), failAt)
          /\ ThrowToMain(e)
    /\ UNCHANGED <<argv, loop, retry, resolverResponse, config, engineVars, result, exitCode>>

\* checkExecutionStatus returns; --check-only; !status.canExecute; config
MainStatusCheck ==
    /\ pc = "status_check"
    /\ \E canExecute \in BOOLEAN, resolverOk \in BOOLEAN :
          /\ trace' = trace \o StatusCalls(argv.DCA_ADDRESS, canExecute, resolverOk)
          /\ IF argv.checkOnly
             THEN Exit(IF canExecute THEN 0 ELSE 2) /\ UNCHANGED config
             ELSE IF ~canExecute
             THEN Exit(2) /\ UNCHANGED config
             ELSE /\ config' = <<[dcaAddress |-> argv.DCA_ADDRESS,
                                  dryRun |-> parseArgs_dryRun(argv)]>>
                  /\ pc' = "canExecute"
                  /\ UNCHANGED exitCode
    /\ UNCHANGED <<argv, loop, retry, resolverResponse, engineVars, result, thrown>>

\* result.success ? process.exit(0) : process.exit(1)
MainResult_alwaysZero ==
    /\ pc = "main_result"
    /\ Exit(0)
    /\ UNCHANGED <<argv, loop, retry, resolverResponse, config, engineVars, result, thrown, trace>>

MainResult ==
    /\ pc = "main_result"
    /\ Exit(IF result[1].success THEN 0 ELSE 1)
    /\ UNCHANGED <<argv, loop, retry, resolverResponse, config, engineVars, result, thrown, trace>>

\* catch (error) { ... process.exit(1) }
MainCatch ==
    /\ pc = "main_catch"
    /\ Exit(1)
    /\ UNCHANGED <<argv, loop, retry, resolverResponse, config, engineVars, result, thrown, trace>>

(***************************************************************************)
(* alchemy-executor.ts: executeFluidDCA, one action per awaited stage      *)
(***************************************************************************)
dca == config[1].dcaAddress

\* Step 1: dcaContract.canExecute()
CheckCanExecute_ignoreFlag ==
    /\ pc = "canExecute"
    /\ \E canExecute \in BOOLEAN :
          /\ trace' = Append(trace, ReadValue("canExecute", dca, canExecute))
          /\ pc' = "getBalances"
    /\ UNCHANGED <<argv, loop, retry, resolverResponse, config, engineVars, result, thrown, exitCode>>

CheckCanExecute ==
    /\ pc = "canExecute"
    /\ \/ \E e \in RpcErrors :
             /\ trace' = Append(trace, Read("canExecute", dca, FALSE))
             /\ ThrowToMain(e)
             /\ UNCHANGED result
       \/ \E canExecute \in BOOLEAN :
             /\ trace' = Append(trace, ReadValue("canExecute", dca, canExecute))
             /\ IF ~canExecute
                THEN ReturnResult(Failure(<<"EURe balance below threshold">>))
                ELSE pc' = "getBalances" /\ UNCHANGED result
             /\ UNCHANGED thrown
    /\ UNCHANGED <<argv, loop, retry, resolverResponse, config, engineVars, exitCode>>

\* Step 2: getBalances(), getVaultDebtFromResolver (logged only),
\* maxSlippageBps()
FetchBalances ==
    /\ pc = "getBalances"
    /\ \/ \E e \in RpcErrors :
             /\ trace' = Append(trace, Read("getBalances", dca, FALSE))
             /\ ThrowToMain(e)
             /\ UNCHANGED <<eureBalance, maxSlippageBps>>
       \/ \E b \in EureBalances, resolverOk \in BOOLEAN, e \in RpcErrors :
             /\ trace' = trace \o << Read("getBalances", dca, TRUE),
                                     Read("positionByNftId", VAULT_RESOLVER, resolverOk),
                                     Read("maxSlippageBps", dca, FALSE) >>
             /\ ThrowToMain(e)
             /\ eureBalance' = b
             /\ UNCHANGED maxSlippageBps
       \/ \E b \in EureBalances, resolverOk \in BOOLEAN, bps \in SlippageBps :
             /\ trace' = trace \o << Read("getBalances", dca, TRUE),
                                     Read("positionByNftId", VAULT_RESOLVER, resolverOk),
                                     Read("maxSlippageBps", dca, TRUE) >>
             /\ eureBalance' = b
             /\ maxSlippageBps' = bps
             /\ pc' = "alloc_debt"
             /\ UNCHANGED thrown
    /\ UNCHANGED <<argv, loop, retry, resolverResponse, config, vaultDebt, eurUsdPrice, usdcUsdPrice, alloc,
                   usdcSwap, ethSwap, calldata, gasEstimateResult, txHash, result,
                   exitCode>>

(***************************************************************************)
(* getVaultDebtFromResolver: decoding the resolver's return data           *)
(*                                                                         *)
(* The return data of provider.call is a JavaScript string: "0x" followed  *)
(* by two hex digits per byte. It is modelled as the sequence of its       *)
(* characters.                                                             *)
(***************************************************************************)
HexDigits == <<"0", "1", "2", "3", "4", "5", "6", "7", "8", "9",
               "a", "b", "c", "d", "e", "f">>
HexValue(c) == CHOOSE n \in 0..15 : HexDigits[n + 1] = c

\* String.prototype.slice(start, end) for 0 <= start <= end
slice(str, start, end) ==
    SubSeq(str, start + 1, IF end <= Len(str) THEN end ELSE Len(str))

SYNTAX_ERROR == "SyntaxError: Cannot convert 0x to a BigInt"

\* the value of a string of hex digits, most significant digit first
RECURSIVE hexToInt(_)
hexToInt(h) ==
    IF h = << >> THEN 0
    ELSE hexToInt(SubSeq(h, 1, Len(h) - 1)) * 16 + HexValue(h[Len(h)])

\* BigInt("0x" + h): a SyntaxError when no digit follows the prefix
BigIntOfHex(h) == IF h = << >> THEN Throw(SYNTAX_ERROR) ELSE Return(hexToInt(h))

\* result.slice(450, 514)
borrowAmountHex_wordSix(res) == slice(res, 386, 450)
borrowAmountHex(res) == slice(res, 450, 514)

\* the try block of getVaultDebtFromResolver on the outcome of provider.call
getVaultDebtFromResolver_try(response) ==
    IF ~response.ok THEN response ELSE BigIntOfHex(borrowAmountHex(response.value[1]))

\* getVaultDebtFromResolver: catch (error) { return 0n }
getVaultDebtFromResolver_failureAsDebt(response) ==
    LET r == getVaultDebtFromResolver_try(response)
    IN  IF r.ok THEN r.value[1] ELSE 1

getVaultDebtFromResolver(response) ==
    LET r == getVaultDebtFromResolver_try(response)
    IN  IF r.ok THEN r.value[1] ELSE 0

\* ABI encoding of the resolver's answer: 32-byte big-endian words. Values
\* stay below 16^7, so only the last seven digits of a word can be nonzero.
Word(v) ==
    [i \in 1..64 |-> IF i <= 57 THEN "0" ELSE HexDigits[((v \div (16 ^ (64 - i))) % 16) + 1]]

RECURSIVE Concat(_)
Concat(seqs) == IF seqs = << >> THEN << >> ELSE Head(seqs) \o Concat(Tail(seqs))

\* return data of `bytes` bytes: the borrow amount in the word at byte
\* offset 224, `other` in every other word
ResolverData(borrow, other, bytes) ==
    <<"0", "x">> \o
    SubSeq(Concat([w \in 1..10 |-> IF w = 8 THEN Word(borrow) ELSE Word(other)]),
           1, 2 * bytes)

\* the answers of the resolver in a run: a full position struct for each
\* debt, an empty answer, or a failed call
ResolverResponses ==
    {Return(ResolverData(d, 1, 320)) : d \in VaultDebts}
    \cup {Return(<<"0", "x">>)}
    \cup {Throw(e) : e \in RpcErrors}

\* Step 3, calculateSwapAllocations: the debt read and the zero-debt branch
AllocReadDebt ==
    /\ pc = "alloc_debt"
    /\ \E response \in ResolverResponses :
          /\ trace' = Append(trace, Read("positionByNftId", VAULT_RESOLVER, response.ok))
          /\ resolverResponse' = <<response>>
          /\ vaultDebt' = getVaultDebtFromResolver(response)
          /\ IF vaultDebt' = 0
             THEN /\ alloc' = <<zeroDebtAllocation(eureBalance)>>
                  /\ pc' = "fetch_usdc"
             ELSE /\ pc' = "alloc_eur"
                  /\ UNCHANGED alloc
    /\ UNCHANGED <<argv, loop, retry, config, eureBalance, maxSlippageBps, eurUsdPrice,
                   usdcUsdPrice, usdcSwap, ethSwap, calldata, gasEstimateResult,
                   txHash, result, thrown, exitCode>>

\* calculateSwapAllocations: getOraclePrice(EUR_USD)
AllocReadEurUsd ==
    /\ pc = "alloc_eur"
    /\ \/ \E e \in RpcErrors :
             /\ trace' = Append(trace, Read("latestRoundData", ORACLES.EUR_USD, FALSE))
             /\ ThrowToMain(e)
             /\ UNCHANGED eurUsdPrice
       \/ \E p \in EurUsdPrices :
             /\ trace' = Append(trace, Read("latestRoundData", ORACLES.EUR_USD, TRUE))
             /\ eurUsdPrice' = p
             /\ pc' = "alloc_usdc"
             /\ UNCHANGED thrown
    /\ UNCHANGED <<argv, loop, retry, resolverResponse, config, eureBalance, maxSlippageBps, vaultDebt,
                   usdcUsdPrice, alloc, usdcSwap, ethSwap, calldata, gasEstimateResult,
                   txHash, result, exitCode>>

\* calculateSwapAllocations: getOraclePrice(USDC_USD) and the split
AllocReadUsdcUsd ==
    /\ pc = "alloc_usdc"
    /\ \/ \E e \in RpcErrors :
             /\ trace' = Append(trace, Read("latestRoundData", ORACLES.USDC_USD, FALSE))
             /\ ThrowToMain(e)
             /\ UNCHANGED <<usdcUsdPrice, alloc>>
       \/ \E p \in UsdcUsdPrices :
             LET r == calculateSwapAllocations(eureBalance, vaultDebt, eurUsdPrice, p)
             IN  /\ trace' = Append(trace, Read("latestRoundData", ORACLES.USDC_USD, TRUE))
                 /\ usdcUsdPrice' = p
                 /\ IF r.ok
                    THEN /\ alloc' = r.value
                         /\ pc' = "fetch_usdc"
                         /\ UNCHANGED thrown
                    ELSE /\ ThrowToMain(r.error)
                         /\ UNCHANGED alloc
    /\ UNCHANGED <<argv, loop, retry, resolverResponse, config, eureBalance, maxSlippageBps, vaultDebt, eurUsdPrice,
                   usdcSwap, ethSwap, calldata, gasEstimateResult, txHash, result,
                   exitCode>>

\* The params getFluidDCASwapData passes to get1inchSwapData
SwapParams(dst, amount) ==
    [src |-> TOKENS.EURE, dst |-> dst, amount |-> amount, from |-> dca,
     receiver |-> dca, slippageBps |-> maxSlippageBps]

\* Step 4, getFluidDCASwapData: the EURe -> USDC leg
FetchUsdcSwap ==
    /\ pc = "fetch_usdc"
    /\ IF alloc[1].eureForUsdc > 0
       THEN \E response \in AggregatorResponses(TOKENS.EURE, TOKENS.USDC, alloc[1].eureForUsdc) :
               LET r == get1inchSwapData(SwapParams(TOKENS.USDC, alloc[1].eureForUsdc), response)
               IN  /\ trace' = Append(trace, Http(TOKENS.USDC, response))
                   /\ IF r.ok
                      THEN usdcSwap' = r.value /\ pc' = "fetch_eth" /\ UNCHANGED thrown
                      ELSE ThrowToMain(r.error) /\ UNCHANGED usdcSwap
       ELSE /\ pc' = "fetch_eth"
            /\ UNCHANGED <<usdcSwap, thrown, trace>>
    /\ UNCHANGED <<argv, loop, retry, resolverResponse, config, eureBalance, maxSlippageBps, vaultDebt, eurUsdPrice,
                   usdcUsdPrice, alloc, ethSwap, calldata, gasEstimateResult, txHash, result,
                   exitCode>>

\* getFluidDCASwapData: the EURe -> WETH leg
FetchEthSwap_nonStrict ==
    /\ pc = "fetch_eth"
    /\ IF alloc[1].eureForEth >= 0
       THEN \E response \in AggregatorResponses(TOKENS.EURE, TOKENS.WETH, alloc[1].eureForEth) :
               LET r == get1inchSwapData(SwapParams(TOKENS.WETH, alloc[1].eureForEth), response)
               IN  /\ trace' = Append(trace, Http(TOKENS.WETH, response))
                   /\ IF r.ok
                      THEN ethSwap' = r.value /\ pc' = "build" /\ UNCHANGED thrown
                      ELSE ThrowToMain(r.error) /\ UNCHANGED ethSwap
       ELSE /\ pc' = "build"
            /\ UNCHANGED <<ethSwap, thrown, trace>>
    /\ UNCHANGED <<argv, loop, retry, resolverResponse, config, eureBalance, maxSlippageBps, vaultDebt, eurUsdPrice,
                   usdcUsdPrice, alloc, usdcSwap, calldata, gasEstimateResult, txHash, result,
                   exitCode>>

FetchEthSwap ==
    /\ pc = "fetch_eth"
    /\ IF alloc[1].eureForEth > 0
       THEN \E response \in AggregatorResponses(TOKENS.EURE, TOKENS.WETH, alloc[1].eureForEth) :
               LET r == get1inchSwapData(SwapParams(TOKENS.WETH, alloc[1].eureForEth), response)
               IN  /\ trace' = Append(trace, Http(TOKENS.WETH, response))
                   /\ IF r.ok
                      THEN ethSwap' = r.value /\ pc' = "build" /\ UNCHANGED thrown
                      ELSE ThrowToMain(r.error) /\ UNCHANGED ethSwap
       ELSE /\ pc' = "build"
            /\ UNCHANGED <<ethSwap, thrown, trace>>
    /\ UNCHANGED <<argv, loop, retry, resolverResponse, config, eureBalance, maxSlippageBps, vaultDebt, eurUsdPrice,
                   usdcUsdPrice, alloc, usdcSwap, calldata, gasEstimateResult, txHash, result,
                   exitCode>>

\* Step 5 without the test for two missing routes
BuildTransaction_alwaysBuild ==
    /\ pc = "build"
    /\ calldata' = <<buildExecuteCalldata(usdcSwap, ethSwap)>>
    /\ pc' = "estimate"
    /\ UNCHANGED <<argv, loop, retry, resolverResponse, config, eureBalance,
                   maxSlippageBps, vaultDebt, eurUsdPrice, usdcUsdPrice, alloc,
                   usdcSwap, ethSwap, gasEstimateResult, txHash, result, thrown,
                   exitCode, trace>>

\* "No swaps needed", else Step 5: buildExecuteCalldata
BuildTransaction ==
    /\ pc = "build"
    /\ IF usdcSwap = << >> /\ ethSwap = << >>
       THEN /\ ReturnResult(Failure(<<"No swaps needed">>))
            /\ UNCHANGED calldata
       ELSE /\ calldata' = <<buildExecuteCalldata(usdcSwap, ethSwap)>>
            /\ pc' = "estimate"
            /\ UNCHANGED result
    /\ UNCHANGED <<argv, loop, retry, resolverResponse, config, eureBalance, maxSlippageBps, vaultDebt, eurUsdPrice,
                   usdcUsdPrice, alloc, usdcSwap, ethSwap, gasEstimateResult, txHash, thrown,
                   exitCode, trace>>

\* txParams = { to: config.dcaAddress, data: calldata, from: wallet.address }
EstimateCalls(okGas, okFee, okPrice) ==
    << Tx("estimateGas", dca, calldata[1], WalletAddress, << >>, okGas),
       Read("getFeeData", "provider", okFee),
       Read("latestRoundData", ORACLES.ETH_USD, okPrice) >>

\* estimateGasCostUsd without the try around it: a throw reaches main
EstimateGasCost_noTry ==
    /\ pc = "estimate"
    /\ \/ \E failAt \in 1..3, e \in RpcErrors :
             /\ trace' = trace \o FailingPrefix(EstimateCalls(TRUE, TRUE, TRUE), failAt)
             /\ ThrowToMain(e)
             /\ UNCHANGED <<gasEstimateResult, result>>
       \/ \E g \in GasEstimates, fee \in FeeGasPrices, ethPriceUsd \in EthUsdPrices :
             LET gasPrice == Coalesce(fee, 0)
             IN  /\ trace' = trace \o EstimateCalls(TRUE, TRUE, TRUE)
                 /\ gasEstimateResult' =
                       <<[gasEstimate |-> g, gasPrice |-> gasPrice,
                          ethPriceUsd |-> ethPriceUsd,
                          totalCostUsd |-> totalCostUsd(g, gasPrice, ethPriceUsd)]>>
                 /\ pc' = "dry_run"
                 /\ UNCHANGED <<result, thrown>>
    /\ UNCHANGED <<argv, loop, retry, resolverResponse, config, eureBalance,
                   maxSlippageBps, vaultDebt, eurUsdPrice, usdcUsdPrice, alloc,
                   usdcSwap, ethSwap, calldata, txHash, exitCode>>

\* estimateGasCostUsd inside its try: any throw gives "Gas estimation failed"
EstimateGasCost ==
    /\ pc = "estimate"
    /\ \/ \E failAt \in 1..3, e \in RpcErrors :
             /\ trace' = trace \o FailingPrefix(EstimateCalls(TRUE, TRUE, TRUE), failAt)
             /\ ReturnResult(Failure(<<"Gas estimation failed", e>>))
             /\ UNCHANGED gasEstimateResult
       \/ \E g \in GasEstimates, fee \in FeeGasPrices, ethPriceUsd \in EthUsdPrices :
             LET gasPrice == Coalesce(fee, 0)
             IN  /\ trace' = trace \o EstimateCalls(TRUE, TRUE, TRUE)
                 /\ gasEstimateResult' =
                       <<[gasEstimate |-> g, gasPrice |-> gasPrice,
                          ethPriceUsd |-> ethPriceUsd,
                          totalCostUsd |-> totalCostUsd(g, gasPrice, ethPriceUsd)]>>
                 /\ pc' = "dry_run"
                 /\ UNCHANGED result
    /\ UNCHANGED <<argv, loop, retry, resolverResponse, config, eureBalance, maxSlippageBps, vaultDebt, eurUsdPrice,
                   usdcUsdPrice, alloc, usdcSwap, ethSwap, calldata, txHash, thrown, exitCode>>

\* if (config.dryRun) return { success: true, ... }
DryRunGate_afterCostGate ==
    /\ pc = "dry_run"
    /\ IF config[1].dryRun /\ ~CostExceedsLimit(gasEstimateResult[1].totalCostUsd)
       THEN ReturnResult(Success(<< >>, << >>))
       ELSE pc' = "cost_gate" /\ UNCHANGED result
    /\ UNCHANGED <<argv, loop, retry, resolverResponse, config, engineVars, thrown, exitCode, trace>>

DryRunGate ==
    /\ pc = "dry_run"
    /\ IF config[1].dryRun
       THEN ReturnResult(Success(<< >>, << >>))
       ELSE pc' = "cost_gate" /\ UNCHANGED result
    /\ UNCHANGED <<argv, loop, retry, resolverResponse, config, engineVars, thrown, exitCode, trace>>

\* if (gasEstimateResult.totalCostUsd > MAX_GAS_COST_USD) return blocked
CostGate ==
    /\ pc = "cost_gate"
    /\ LET cost == gasEstimateResult[1].totalCostUsd
           exceeds == CostExceedsLimit(cost)
       IN  /\ trace' = Append(trace, Gate("gate.cost", [totalCostUsd |-> cost], ~exceeds))
           /\ IF exceeds
              THEN ReturnResult(Failure(<<"Gas cost exceeds limit", cost, MAX_GAS_COST_USD>>))
              ELSE pc' = "solvency" /\ UNCHANGED result
    /\ UNCHANGED <<argv, loop, retry, resolverResponse, config, engineVars, thrown, exitCode>>

\* provider.getBalance, provider.getFeeData, walletBalance < estimatedCost
SolvencyGate ==
    /\ pc = "solvency"
    /\ \/ \E failAt \in 1..2, e \in RpcErrors :
             /\ trace' = trace \o FailingPrefix(<< Read("getBalance", WalletAddress, TRUE),
                                                   Read("getFeeData", "provider", TRUE) >>,
                                                failAt)
             /\ ThrowToMain(e)
             /\ UNCHANGED result
       \/ \E walletBalance \in WalletBalances, fee \in FeeGasPrices :
             LET cost == estimatedCost(gasEstimateResult[1].gasEstimate, fee)
                 short == InsufficientBalance(walletBalance, cost)
             IN  /\ trace' = trace \o << Read("getBalance", WalletAddress, TRUE),
                                         Read("getFeeData", "provider", TRUE),
                                         Gate("gate.solvency",
                                              [walletBalance |-> walletBalance,
                                               feeGasPrice |-> fee,
                                               estimatedCost |-> cost],
                                              ~short) >>
                 /\ IF short
                    THEN ReturnResult(Failure(<<"Insufficient ETH balance",
                                                cost, walletBalance>>))
                    ELSE pc' = "simulate" /\ UNCHANGED result
                 /\ UNCHANGED thrown
    /\ UNCHANGED <<argv, loop, retry, resolverResponse, config, engineVars, exitCode>>

SimulationErrors == {"execution reverted"}

\* provider.call({to, data, from}) in its try
Simulate_ignoreRevert ==
    /\ pc = "simulate"
    /\ \E ok \in BOOLEAN :
          /\ trace' = Append(trace, Tx("call", dca, calldata[1], WalletAddress, << >>, ok))
          /\ pc' = "send"
    /\ UNCHANGED <<argv, loop, retry, resolverResponse, config, engineVars, result, thrown, exitCode>>

Simulate ==
    /\ pc = "simulate"
    /\ \/ \E e \in SimulationErrors :
             /\ trace' = Append(trace, Tx("call", dca, calldata[1], WalletAddress, << >>, FALSE))
             /\ ReturnResult(Failure(<<"Simulation failed", e>>))
       \/ /\ trace' = Append(trace, Tx("call", dca, calldata[1], WalletAddress, << >>, TRUE))
          /\ pc' = "send"
          /\ UNCHANGED result
    /\ UNCHANGED <<argv, loop, retry, resolverResponse, config, engineVars, thrown, exitCode>>

\* errors of wallet.sendTransaction; a request timeout can hit any RPC request
SendErrors == {"insufficient funds", "nonce too low", "timeout"}

\* gasEstimate * 120n / 100n
gasLimitOf(gasEstimate) == (gasEstimate * GAS_LIMIT_NUM) \div GAS_LIMIT_DEN

SendCall_rebuilt(ok) ==
    Tx("sendTransaction", dca, buildExecuteCalldata(ethSwap, usdcSwap), WalletAddress,
       <<gasLimitOf(gasEstimateResult[1].gasEstimate)>>, ok)

SendCall(ok) ==
    Tx("sendTransaction", dca, calldata[1], WalletAddress,
       <<gasLimitOf(gasEstimateResult[1].gasEstimate)>>, ok)

\* wallet.sendTransaction({to, data, gasLimit}) in the final try
SendTransaction_retry ==
    /\ pc = "send"
    /\ \/ /\ trace' = Append(trace, SendCall(FALSE))
          /\ CountCalls("sendTransaction") < 2
          /\ UNCHANGED <<pc, result, txHash>>
       \/ /\ trace' = Append(trace, SendCall(TRUE))
          /\ txHash' = <<"0xTXHASH">>
          /\ pc' = "wait"
          /\ UNCHANGED result
    /\ UNCHANGED <<argv, loop, retry, resolverResponse, config, eureBalance, maxSlippageBps, vaultDebt, eurUsdPrice,
                   usdcUsdPrice, alloc, usdcSwap, ethSwap, calldata, gasEstimateResult, thrown,
                   exitCode>>

SendTransaction ==
    /\ pc = "send"
    /\ \/ \E e \in SendErrors :
             /\ trace' = Append(trace, SendCall(FALSE))
             /\ ReturnResult(Failure(<<e>>))
             /\ UNCHANGED txHash
       \/ /\ trace' = Append(trace, SendCall(TRUE))
          /\ txHash' = <<"0xTXHASH">>
          /\ pc' = "wait"
          /\ UNCHANGED result
    /\ UNCHANGED <<argv, loop, retry, resolverResponse, config, eureBalance, maxSlippageBps, vaultDebt, eurUsdPrice,
                   usdcUsdPrice, alloc, usdcSwap, ethSwap, calldata, gasEstimateResult, thrown,
                   exitCode>>

WaitErrors == {"transaction execution reverted", "timeout"}

\* tx.wait() in the same try, then the success result
WaitConfirmation_pollAgain ==
    /\ pc = "wait"
    /\ \/ /\ CountCalls("wait") < 2
          /\ trace' = Append(trace, Read("wait", txHash[1], FALSE))
          /\ UNCHANGED <<pc, result>>
       \/ \E gasUsed \in GasEstimates :
             /\ trace' = Append(trace, Read("wait", txHash[1], TRUE))
             /\ ReturnResult(Success(txHash, <<gasUsed>>))
    /\ UNCHANGED <<argv, loop, retry, resolverResponse, config, engineVars, thrown, exitCode>>

WaitConfirmation ==
    /\ pc = "wait"
    /\ \/ \E e \in WaitErrors :
             /\ trace' = Append(trace, Read("wait", txHash[1], FALSE))
             /\ ReturnResult(Failure(<<e>>))
       \/ \E gasUsed \in GasEstimates :
             /\ trace' = Append(trace, Read("wait", txHash[1], TRUE))
             /\ ReturnResult(Success(txHash, <<gasUsed>>))
    /\ UNCHANGED <<argv, loop, retry, resolverResponse, config, engineVars, thrown, exitCode>>

Next ==
    \/ MainStart
    \/ MainStatusCheckThrows
    \/ MainStatusCheck
    \/ CheckCanExecute
    \/ FetchBalances
    \/ AllocReadDebt
    \/ AllocReadEurUsd
    \/ AllocReadUsdcUsd
    \/ FetchUsdcSwap
    \/ FetchEthSwap
    \/ BuildTransaction
    \/ EstimateGasCost
    \/ DryRunGate
    \/ CostGate
    \/ SolvencyGate
    \/ Simulate
    \/ SendTransaction
    \/ WaitConfirmation
    \/ MainResult
    \/ MainCatch

Spec == Init /\ [][Next]_vars

(***************************************************************************)
(* Properties                                                              *)
(***************************************************************************)
Events(op) == {i \in 1..Len(trace) : trace[i].op = op}

\* the run asked for dry-run mode: --dry-run or DRY_RUN=true
DryRunRequested == argv.dryRunFlag \/ argv.DRY_RUN = "true"

\* the aggregator answered a swap request with decodable calldata whose
\* dstReceiver is not the DCA contract
IsMismatch(ev) ==
    /\ ev.op = "1inch.swap"
    /\ ev.ok
    /\ ev.data[1].txdata.decodable
    /\ toLowerCase(ev.data[1].txdata.desc.dstReceiver) # toLowerCase(dca)

MismatchReturned == \E i \in 1..Len(trace) : IsMismatch(trace[i])

PaysDca(desc) == toLowerCase(desc.dstReceiver) = toLowerCase(dca)

\* C1: once the aggregator has returned, for a non-zero leg, calldata whose
\* decoded dstReceiver differs from the DCA contract address, the fetch has
\* failed (an error propagates, no result is returned), that answer is the
\* last event of the run, and no calldata is built, no gas is estimated,
\* nothing is simulated and nothing is sent.
C1_ReceiverMismatchAborts ==
    MismatchReturned =>
        /\ IsMismatch(trace[Len(trace)])
        /\ thrown # << >>
        /\ result = << >>
        /\ pc \in {"main_catch", "exit"}
        /\ calldata = << >>
        /\ ~Called("estimateGas")
        /\ ~Called("call")
        /\ ~Called("sendTransaction")

\* C1 witness: the USDC leg was fetched correctly, the WETH leg came back
\* with a foreign receiver, and the run has ended
C1_Witness ==
    /\ MismatchReturned
    /\ usdcSwap # << >>
    /\ pc = "exit"
    /\ exitCode = <<1>>

\* C2: every SwapData the fetcher returned has dstReceiver equal, ignoring
\* letter case, to the receiver argument (the DCA address), and in every
\* payload built each swap description is either the placeholder of an
\* absent leg or has dstReceiver equal to config.dcaAddress.
C2_RoutesPayTheContract ==
    /\ usdcSwap # << >> => PaysDca(usdcSwap[1].swapDescription)
    /\ ethSwap # << >> => PaysDca(ethSwap[1].swapDescription)
    /\ calldata # << >> =>
          /\ \/ usdcSwap = << >> /\ calldata[1].usdcDesc.dstReceiver = ZeroAddress
             \/ PaysDca(calldata[1].usdcDesc)
          /\ \/ ethSwap = << >> /\ calldata[1].ethDesc.dstReceiver = ZeroAddress
             \/ PaysDca(calldata[1].ethDesc)

\* C2 witness: a payload with two real legs, the configured address and the
\* decoded receivers differing in letter case only
C2_Witness ==
    /\ calldata # << >>
    /\ usdcSwap # << >>
    /\ ethSwap # << >>
    /\ calldata[1].usdcDesc.dstReceiver # dca
    /\ calldata[1].ethDesc.dstReceiver # dca

\* the error get1inchSwapData reports for calldata that cannot be decoded
DecodeFailureError ==
    get1inchSwapData(SwapParams(TOKENS.USDC, 1),
                     [status |-> "ok",
                      txdata |-> [decodable |-> FALSE, executor |-> ZeroAddress,
                                  desc |-> emptySwapDesc, data |-> "0x"]]).error

\* C3: the error the fetcher reports for a receiver mismatch differs from
\* the error it reports for calldata that cannot be ABI-decoded.
C3_MismatchErrorDistinct ==
    (MismatchReturned /\ thrown # << >>) => thrown[1] # DecodeFailureError

SameCall(a, b) == a.to = b.to /\ a.data = b.data /\ a.from = b.from

\* C4: every sendTransaction is preceded, in this order, by a successful gas
\* estimation, a cost gate that found the cost within the ceiling, a
\* solvency gate that found the balance sufficient and a successful
\* simulation; estimation, simulation and submission carry the same target,
\* calldata and sender.
C4_SendOnlyAfterAllGates ==
    \A k \in Events("sendTransaction") :
        \E i \in Events("estimateGas") :
            /\ trace[i].ok
            /\ SameCall(trace[i], trace[k])
            /\ \E j \in Events("gate.cost") :
                  /\ i < j
                  /\ trace[j].ok
                  /\ trace[j].data[1].totalCostUsd <= MAX_GAS_COST_USD
                  /\ \E l \in Events("gate.solvency") :
                        /\ j < l
                        /\ trace[l].ok
                        /\ trace[l].data[1].walletBalance >= trace[l].data[1].estimatedCost
                        /\ \E m \in Events("call") :
                              /\ l < m
                              /\ m < k
                              /\ trace[m].ok
                              /\ SameCall(trace[m], trace[k])

\* C4 witness: a transaction with two real legs was sent and confirmed
C4_Witness ==
    /\ Called("sendTransaction")
    /\ usdcSwap # << >>
    /\ ethSwap # << >>
    /\ pc = "exit"
    /\ exitCode = <<0>>

SimulationFailed == \E i \in Events("call") : ~trace[i].ok

\* C5: when the pre-flight simulation reverts or throws, executeFluidDCA
\* returns a failure whose error starts with "Simulation failed" and
\* sendTransaction is not called.
C5_SimulationFailureBlocks ==
    SimulationFailed =>
        /\ ~Called("sendTransaction")
        /\ pc \in {"main_result", "exit"}
        /\ result # << >>
        /\ ~result[1].success
        /\ result[1].error[1] = "Simulation failed"

\* C5 witness: a run that ended on a failed simulation
C5_Witness ==
    /\ SimulationFailed
    /\ pc = "exit"
    /\ exitCode = <<1>>

\* a live run that has evaluated the cost gate
PastCostGate ==
    /\ config # << >>
    /\ ~config[1].dryRun
    /\ gasEstimateResult # << >>
    /\ pc \notin {"dry_run", "cost_gate"}

\* C6: in a live run, an estimated cost equal to the ceiling passes the cost
\* gate and the run goes on to the solvency gate; a cost above the ceiling
\* blocks the run, with no wallet read, no simulation and no submission.
C6_CostGateStrict ==
    PastCostGate =>
        LET cost == gasEstimateResult[1].totalCostUsd
        IN  /\ cost = MAX_GAS_COST_USD =>
                  /\ \A j \in Events("gate.cost") : trace[j].ok
                  /\ pc = "solvency" \/ Called("getBalance")
            /\ cost > MAX_GAS_COST_USD =>
                  /\ pc \in {"main_result", "exit"}
                  /\ ~result[1].success
                  /\ result[1].error[1] = "Gas cost exceeds limit"
                  /\ ~Called("getBalance")
                  /\ ~Called("call")
                  /\ ~Called("sendTransaction")

\* C6 witness: a live run whose cost is exactly the ceiling, at the solvency gate
C6_Witness ==
    /\ PastCostGate
    /\ gasEstimateResult[1].totalCostUsd = MAX_GAS_COST_USD
    /\ pc = "solvency"

Blocked(i, prefix) ==
    /\ ~trace[i].ok
    /\ i = Len(trace)
    /\ pc \in {"main_result", "exit"}
    /\ ~result[1].success
    /\ result[1].error[1] = prefix
    /\ ~Called("call")
    /\ ~Called("sendTransaction")

Proceeds(i) == trace[i].ok /\ (pc = "simulate" \/ Called("call"))

\* C7 (as stated): at the solvency gate, whenever the provider reports a gas
\* price, a balance below gasEstimate times that price blocks the run and a
\* balance equal to that product lets it proceed.
C7_SolvencyGateOnReportedPrice ==
    \A i \in Events("gate.solvency") :
        LET d == trace[i].data[1]
        IN  d.feeGasPrice # << >> =>
               LET product == gasEstimateResult[1].gasEstimate * d.feeGasPrice[1]
               IN  /\ d.walletBalance < product => Blocked(i, "Insufficient ETH balance")
                   /\ d.walletBalance = product => Proceeds(i)

\* C7 (amended): the gate compares the balance with gasEstimate times the gas
\* price just read, taken as 30 gwei when the provider reports none or zero:
\* a smaller balance blocks the run with the insufficient-funds error and
\* neither simulation nor submission happens; an equal or larger balance
\* lets the run proceed to the simulation.
C7_SolvencyGateWithFallback ==
    \A i \in Events("gate.solvency") :
        LET d == trace[i].data[1]
            price == IF d.feeGasPrice = << >> \/ d.feeGasPrice = <<0>>
                     THEN DEFAULT_GAS_PRICE ELSE d.feeGasPrice[1]
            product == gasEstimateResult[1].gasEstimate * price
        IN  /\ d.walletBalance < product => Blocked(i, "Insufficient ETH balance")
            /\ d.walletBalance >= product => Proceeds(i)

\* C7 witness: no gas price reported, balance exactly gasEstimate * 30 gwei,
\* and the run is at the simulation
C7_Witness ==
    /\ pc = "simulate"
    /\ \E i \in Events("gate.solvency") :
          /\ trace[i].data[1].feeGasPrice = << >>
          /\ trace[i].data[1].walletBalance = gasEstimateResult[1].gasEstimate * DEFAULT_GAS_PRICE

\* C8: a run in dry-run mode never calls wallet.sendTransaction.
C8_DryRunNeverSends == DryRunRequested => ~Called("sendTransaction")

\* C8 witness: dry-run asked for through DRY_RUN only, the run went through
\* the whole pipeline and ended
C8_Witness ==
    /\ ~argv.dryRunFlag
    /\ argv.DRY_RUN = "true"
    /\ gasEstimateResult # << >>
    /\ pc = "exit"

\* C9: in dry-run mode, once gas estimation has succeeded, the run returns a
\* success result without txHash whatever the cost and the wallet balance;
\* the cost gate and the solvency gate are never evaluated.
C9_DryRunNeverBlocked ==
    (config # << >> /\ config[1].dryRun /\ gasEstimateResult # << >>) =>
        /\ pc \in {"dry_run", "main_result", "exit"}
        /\ Events("gate.cost") = {}
        /\ Events("gate.solvency") = {}
        /\ pc # "dry_run" =>
              /\ result # << >>
              /\ result[1].success
              /\ result[1].txHash = << >>

\* C9 witness: a dry run whose estimated cost is above the ceiling ended
\* with exit code 0
C9_Witness ==
    /\ config # << >>
    /\ config[1].dryRun
    /\ gasEstimateResult # << >>
    /\ gasEstimateResult[1].totalCostUsd > MAX_GAS_COST_USD
    /\ pc = "exit"
    /\ exitCode = <<0>>

\* C10: one invocation calls wallet.sendTransaction at most once.
C10_AtMostOneSend == CountCalls("sendTransaction") <= 1

\* C10 witness: the one submission failed (or its confirmation did) and the
\* run ended without another one
C10_Witness ==
    /\ CountCalls("sendTransaction") = 1
    /\ pc = "exit"
    /\ exitCode = <<1>>

(***************************************************************************)
(* Outcome taxonomy                                                        *)
(***************************************************************************)
\* the results executeFluidDCA can return when sendTransaction itself threw
PreSubmissionFailures == {Failure(<<e>>) : e \in SendErrors}

\* C11: when the confirmation wait fails after sendTransaction returned, the
\* result handed to the caller is one that no failure of sendTransaction
\* itself produces.
C11_WaitFailureDistinct ==
    (result # << >> /\ Called("wait") /\ ~result[1].success) =>
        result[1] \notin PreSubmissionFailures

\* the run stopped on one of the four recognized precondition failures
CostGateBlocked == \E i \in Events("gate.cost") : ~trace[i].ok
SolvencyGateBlocked == \E i \in Events("gate.solvency") : ~trace[i].ok
RecognizedPreconditionFailure ==
    \/ MismatchReturned
    \/ CostGateBlocked
    \/ SolvencyGateBlocked
    \/ SimulationFailed

\* C12: a run that stopped on a recognized precondition failure exits with
\* a code that differs from the exit code 1 of an unexpected failure.
C12_BlockedExitCodeDistinct ==
    (pc = "exit" /\ RecognizedPreconditionFailure) => exitCode # <<1>>

(***************************************************************************)
(* run.sh: one scheduler tick, run_with_retry around run-execution.ts      *)
(***************************************************************************)
\* local max_attempts=3
max_attempts == 3
\* local delays=(30 60 120)
delays == <<30, 60, 120>>

\* what the attempt that just exited did
Submitted == \E i \in Events("sendTransaction") : trace[i].ok
AttemptSummary(delay) ==
    [exitCode |-> exitCode[1], blocked |-> RecognizedPreconditionFailure,
     submitted |-> Submitted, delay |-> delay]

\* run.sh passes --dry-run exactly when DRY_RUN is true, and no other option
InitTick ==
    /\ Init
    /\ ~argv.help
    /\ ~argv.checkOnly
    /\ argv.dryRunFlag = (argv.DRY_RUN = "true")

\* the process of the attempt is gone once run_with_retry has looked at its
\* exit code: none of its memory reaches run.sh
ProcessGone ==
    /\ config' = << >>
    /\ eureBalance' = 0
    /\ maxSlippageBps' = 0
    /\ vaultDebt' = 0
    /\ eurUsdPrice' = 0
    /\ usdcUsdPrice' = 0
    /\ alloc' = << >>
    /\ usdcSwap' = << >>
    /\ ethSwap' = << >>
    /\ calldata' = << >>
    /\ gasEstimateResult' = << >>
    /\ txHash' = << >>
    /\ result' = << >>
    /\ thrown' = << >>
    /\ exitCode' = << >>
    /\ trace' = << >>
    /\ resolverResponse' = << >>

\* run_with_retry returning the exit code of its last attempt
RetryReturn_lastCode ==
    /\ pc = "exit"
    /\ retry.returned = << >>
    /\ \/ /\ exitCode[1] \in {0, 2}
          /\ retry' = [retry EXCEPT !.returned = exitCode,
                                    !.history = Append(@, AttemptSummary(0))]
       \/ /\ exitCode[1] \notin {0, 2}
          /\ retry.attempt >= max_attempts
          /\ retry' = [retry EXCEPT !.returned = exitCode,
                                    !.attempt = @ + 1,
                                    !.history = Append(@, AttemptSummary(0))]
    /\ loop' = [loop EXCEPT !.EXIT_CODE = exitCode]
    /\ pc' = "finish"
    /\ ProcessGone
    /\ UNCHANGED argv

\* exit code 0 or 2: return it; last attempt failed: leave the loop, return 1.
\* The main loop stores the return code: EXIT_CODE=$?
RetryReturn ==
    /\ pc = "exit"
    /\ retry.returned = << >>
    /\ \/ /\ exitCode[1] \in {0, 2}
          /\ retry' = [retry EXCEPT !.returned = exitCode,
                                    !.history = Append(@, AttemptSummary(0))]
          /\ loop' = [loop EXCEPT !.EXIT_CODE = exitCode]
       \/ /\ exitCode[1] \notin {0, 2}
          /\ retry.attempt >= max_attempts
          /\ retry' = [retry EXCEPT !.returned = <<1>>,
                                    !.attempt = @ + 1,
                                    !.history = Append(@, AttemptSummary(0))]
          /\ loop' = [loop EXCEPT !.EXIT_CODE = <<1>>]
    /\ pc' = "finish"
    /\ ProcessGone
    /\ UNCHANGED argv

\* the retry condition with the test for exit code 2 left out
RetryAgain_retryOnTwo ==
    /\ pc = "exit"
    /\ retry.returned = << >>
    /\ exitCode[1] # 0
    /\ retry.attempt < max_attempts
    /\ retry' = [retry EXCEPT !.attempt = @ + 1,
                              !.history = Append(@, AttemptSummary(delays[retry.attempt]))]
    /\ pc' = "main"
    /\ ProcessGone
    /\ UNCHANGED <<argv, loop>>

\* another failure with attempts left: sleep, ((attempt++)), run "$@" again
\* as a new process
RetryAgain ==
    /\ pc = "exit"
    /\ retry.returned = << >>
    /\ exitCode[1] \notin {0, 2}
    /\ retry.attempt < max_attempts
    /\ retry' = [retry EXCEPT !.attempt = @ + 1,
                              !.history = Append(@, AttemptSummary(delays[retry.attempt]))]
    /\ pc' = "main"
    /\ ProcessGone
    /\ UNCHANGED <<argv, loop>>

\* cd /app failed: run_with_retry is not called, EXIT_CODE=1
CdFailed ==
    /\ pc = "main"
    /\ trace = << >>
    /\ retry.attempt = 1
    /\ retry.history = << >>
    /\ loop.EXIT_CODE = << >>
    /\ loop' = [loop EXCEPT !.EXIT_CODE = <<1>>]
    /\ pc' = "finish"
    /\ UNCHANGED <<argv, retry, resolverResponse, config, engineVars, result,
                   thrown, exitCode, trace>>

\* mqtt-sensors.sh update_sensors: the publications it makes, in order
update_sensors(status) ==
    <<[topic |-> "fluiddca/status/state", payload |-> status]>>
    \o (IF status = "executed"
        THEN <<[topic |-> "fluiddca/status/last_execution", payload |-> "date"]>>
        ELSE << >>)
    \o <<[topic |-> "fluiddca/status/can_execute",
          payload |-> IF status = "executed" THEN "true" ELSE "false"]>>

\* the options of the add-on the rest of the iteration reads; they are set
\* once at start and nothing before this point depends on them
LoopOptions ==
    [NOTIFY_ON_SUCCESS : BOOLEAN, NOTIFY_ON_ERROR : BOOLEAN,
     MQTT_SENSORS : BOOLEAN, mqttAvailable : BOOLEAN]

\* the status with the branch for exit code 2 left out
StatusOf_twoIsError(code) ==
    IF code = 0 THEN "executed" ELSE "error"

\* LAST_STATUS of an EXIT_CODE
StatusOf(code) ==
    IF code = 0 THEN "executed"
    ELSE IF code = 2 THEN "low_balance"
    ELSE "error"

\* the rest of the iteration: LAST_STATUS from EXIT_CODE, the notification,
\* the sensor update. notify.sh may fail, and mosquitto_pub may fail at any
\* publication, which ends mqtt-sensors.sh there (errexit); neither stops
\* the loop.
FinishIteration ==
    /\ pc = "finish"
    /\ loop.LAST_STATUS = << >>
    /\ \E options \in LoopOptions, notifyOk \in BOOLEAN, delivered \in 0..3 :
         LET code == loop.EXIT_CODE[1]
             status == StatusOf(code)
             pubs == update_sensors(status)
         IN  /\ delivered <= Len(pubs)
             /\ loop' =
                  [SHUTDOWN |-> loop.SHUTDOWN,
                   EXIT_CODE |-> loop.EXIT_CODE,
                   LAST_STATUS |-> <<status>>,
                   options |-> <<options>>,
                   notifications |->
                     IF code = 0 /\ options.NOTIFY_ON_SUCCESS
                     THEN <<[kind |-> "success", exitCode |-> code, ok |-> notifyOk]>>
                     ELSE IF code \notin {0, 2} /\ options.NOTIFY_ON_ERROR
                     THEN <<[kind |-> "error", exitCode |-> code, ok |-> notifyOk]>>
                     ELSE << >>,
                   published |->
                     IF options.MQTT_SENSORS /\ options.mqttAvailable
                     THEN SubSeq(pubs, 1, delivered)
                     ELSE << >>]
    /\ pc' = "sleep"
    /\ UNCHANGED <<argv, retry, resolverResponse, config, engineVars, result,
                   thrown, exitCode, trace>>

NextTick ==
    \/ Next
    \/ RetryReturn
    \/ RetryAgain
    \/ CdFailed
    \/ FinishIteration

SpecTick == InitTick /\ [][NextTick]_vars

\* C13: within one tick, an attempt that ended on a recognized precondition
\* failure is the last attempt: no further attempt is started after it.
C13_BlockedNotRetried ==
    \A i \in 1..Len(retry.history) :
        retry.history[i].blocked =>
            (i = Len(retry.history) /\ retry.returned # << >>)

(***************************************************************************)
(* calculateSwapAllocations as a function of the values it reads           *)
(***************************************************************************)
\* balances around the amounts the debts below need, debts from none to
\* more than any balance covers, and signed oracle answers
AllocBalances == {100 * k : k \in 0..MaxAllocBalance} \cup {1, 56110, 56111, 100000}
AllocDebts == (0..MaxAllocDebt) \cup {600, 5000}
AllocEurUsdPrices == {-108, 0, 92, 108, 120}
AllocUsdcUsdPrices == {-100, 0, 99, 100, 101}

InitAlloc ==
    /\ pc = "calculateSwapAllocations"
    /\ eureBalance \in AllocBalances
    /\ vaultDebt \in AllocDebts
    /\ eurUsdPrice \in AllocEurUsdPrices
    /\ usdcUsdPrice \in AllocUsdcUsdPrices
    /\ argv = [help |-> FALSE, checkOnly |-> FALSE, dryRunFlag |-> FALSE,
               DRY_RUN |-> "false", envValid |-> TRUE, DCA_ADDRESS |-> "0xDcA"]
    /\ config = << >>
    /\ maxSlippageBps = 0
    /\ alloc = << >>
    /\ usdcSwap = << >>
    /\ ethSwap = << >>
    /\ calldata = << >>
    /\ gasEstimateResult = << >>
    /\ txHash = << >>
    /\ result = << >>
    /\ thrown = << >>
    /\ exitCode = << >>
    /\ trace = << >>
    /\ retry = [attempt |-> 1, returned |-> << >>, history |-> << >>]
    /\ loop = IterationStart
    /\ resolverResponse = << >>

\* the function returns its pair or throws
Calculate ==
    /\ pc = "calculateSwapAllocations"
    /\ LET r == calculateSwapAllocations(eureBalance, vaultDebt, eurUsdPrice, usdcUsdPrice)
       IN  IF r.ok
           THEN /\ alloc' = r.value
                /\ pc' = "returned"
                /\ UNCHANGED thrown
           ELSE /\ thrown' = <<r.error>>
                /\ pc' = "thrown"
                /\ UNCHANGED alloc
    /\ UNCHANGED <<argv, loop, retry, resolverResponse, config, eureBalance, maxSlippageBps, vaultDebt, eurUsdPrice,
                   usdcUsdPrice, usdcSwap, ethSwap, calldata, gasEstimateResult, txHash,
                   result, exitCode, trace>>

NextAlloc == Calculate

SpecAlloc == InitAlloc /\ [][NextAlloc]_vars

\* C14: whenever the allocation is returned, its two amounts add up to the
\* balance exactly.
C14_AllocationConservesBalance ==
    alloc # << >> => alloc[1].eureForUsdc + alloc[1].eureForEth = eureBalance

\* C14 witness: a returned split with both legs funded
C14_Witness ==
    /\ pc = "returned"
    /\ alloc[1].eureForUsdc > 0
    /\ alloc[1].eureForEth > 0

\* C15: with a debt of zero the whole balance goes to the collateral leg and
\* neither the EUR/USD nor the USDC/USD oracle is read.
C15_ZeroDebtAllToCollateral ==
    (alloc # << >> /\ vaultDebt = 0) =>
        /\ alloc[1].eureForUsdc = 0
        /\ alloc[1].eureForEth = eureBalance
        /\ \A i \in Events("latestRoundData") :
              trace[i].to \notin {ORACLES.EUR_USD, ORACLES.USDC_USD}

\* C15 witness: the run read a zero debt with a positive balance and went on
\* to fetch the routes
C15_Witness ==
    /\ pc = "fetch_usdc"
    /\ vaultDebt = 0
    /\ eureBalance > 0
    /\ alloc # << >>

\* C16: the debt leg never gets more than the balance.
C16_DebtLegWithinBalance ==
    alloc # << >> => alloc[1].eureForUsdc <= eureBalance

\* C16 witness: the debt needs more than the balance holds and the debt leg
\* is clamped to the balance
C16_Witness ==
    /\ pc = "returned"
    /\ eureBalance = 100
    /\ vaultDebt = 600
    /\ eurUsdPrice > 0
    /\ usdcUsdPrice > 0
    /\ alloc[1].eureForUsdc = 100

\* C17: both returned amounts are non-negative for every balance, debt and
\* oracle answer, negative answers included.
C17_AllocationNonNegative ==
    alloc # << >> => (alloc[1].eureForUsdc >= 0 /\ alloc[1].eureForEth >= 0)

\* the mathematical floor of a / b for a >= 0, b > 0, and the minimum
Floor(a, b) == CHOOSE q \in {a \div b} : q * b <= a /\ a < (q + 1) * b
Min(a, b) == IF a <= b THEN a ELSE b

\* C18: for a positive debt and positive prices the debt leg is
\* min(B, floor(floor(D * usdc * 10^18 / (eur * 10^6)) * 101 / 100)) and the
\* collateral leg is the rest of the balance.
C18_AllocationFormula ==
    (alloc # << >> /\ vaultDebt > 0 /\ eurUsdPrice > 0 /\ usdcUsdPrice > 0) =>
        LET needed == Floor(vaultDebt * usdcUsdPrice * EURE_SCALE, eurUsdPrice * USDC_SCALE)
            expected == Min(eureBalance, Floor(needed * 101, 100))
        IN  /\ alloc[1].eureForUsdc = expected
            /\ alloc[1].eureForEth = eureBalance - expected

\* C18 witness: balance 1000 EURe, debt 600 USDC, EUR/USD 1.08, USDC/USD 1.00
\* give 561.10 EURe for the debt leg and 438.90 EURe for the collateral leg
C18_Witness ==
    /\ pc = "returned"
    /\ eureBalance = 100000
    /\ vaultDebt = 600
    /\ eurUsdPrice = 108
    /\ usdcUsdPrice = 100
    /\ alloc = <<[eureForUsdc |-> 56110, eureForEth |-> 43890]>>

(***************************************************************************)
(* Eligibility                                                             *)
(***************************************************************************)
\* the i-th call of the run is a canExecute read that returned false
FalseFlagRead(i) ==
    /\ trace[i].op = "canExecute"
    /\ trace[i].ok
    /\ trace[i].data = <<FALSE>>

C20_FalseFlagExitsNotNeeded ==
    (/\ pc = "exit"
     /\ \A j \in 1..Len(trace) : trace[j].ok
     /\ \E i \in 1..Len(trace) : FalseFlagRead(i)) => exitCode = <<2>>

(***************************************************************************)
(* Exit codes of run-execution.ts                                          *)
(***************************************************************************)
\* the transaction was sent and its confirmation returned
Confirmed == \E i \in Events("wait") : trace[i].ok
\* executeFluidDCA returned a failure result, or an error reached main's catch
FailedOutcome == (result # << >> /\ ~result[1].success) \/ thrown # << >>

DryRunCompleted ==
    /\ config # << >>
    /\ config[1].dryRun
    /\ result # << >>
    /\ result[1].success
    /\ result[1].txHash = << >>
    /\ ~Called("sendTransaction")

SpecFair == Spec /\ WF_vars(Next)

\* the stages of main and executeFluidDCA in program order
Stages ==
    << "main", "status_check", "canExecute", "getBalances", "alloc_debt",
       "alloc_eur", "alloc_usdc", "fetch_usdc", "fetch_eth", "build", "estimate",
       "dry_run", "cost_gate", "solvency", "simulate", "send", "wait",
       "main_result", "main_catch", "exit" >>
Rank(p) == CHOOSE i \in 1..Len(Stages) : Stages[i] = p

\* C22: every invocation eventually exits, with exactly one exit code that
\* is set at the exit and nowhere else, and every step moves to a later
\* stage, so that no stage is executed twice.
C22_TerminatesOnce ==
    /\ <>(pc = "exit")
    /\ [](Len(exitCode) = (IF pc = "exit" THEN 1 ELSE 0))
    /\ [][Rank(pc') > Rank(pc)]_vars

\* C22 witness: a run went through every stage up to the confirmation and
\* exited
C22_Witness ==
    /\ pc = "exit"
    /\ Confirmed
    /\ exitCode = <<0>>

(***************************************************************************)
(* Swap routes and the execute() payload                                   *)
(***************************************************************************)
LegCalls(dst) == {i \in Events("1inch.swap") : trace[i].to = dst}
\* getFluidDCASwapData is past the USDC leg / past both legs
UsdcLegDone == alloc # << >> /\ pc # "fetch_usdc"
UsdcLegThrew == LegCalls(TOKENS.USDC) # {} /\ usdcSwap = << >>
EthLegDone == alloc # << >> /\ pc \notin {"fetch_usdc", "fetch_eth"} /\ ~UsdcLegThrew

SwapDatas(dst) ==
    { [executor |-> "0xEXECUTOR", executorData |-> d, swapDescription |-> desc] :
        d \in {"0x", "0xROUTE"},
        desc \in UNION {SwapDescriptions(TOKENS.EURE, dst, a) : a \in 1..MaxRouteAmount} }
Routes(dst) == {<< >>} \cup {<<r>> : r \in SwapDatas(dst)}

InitCalldata ==
    /\ pc = "buildExecuteCalldata"
    /\ usdcSwap \in Routes(TOKENS.USDC)
    /\ ethSwap \in Routes(TOKENS.WETH)
    /\ argv = [help |-> FALSE, checkOnly |-> FALSE, dryRunFlag |-> FALSE,
               DRY_RUN |-> "false", envValid |-> TRUE, DCA_ADDRESS |-> "0xDcA"]
    /\ config = << >>
    /\ eureBalance = 0
    /\ maxSlippageBps = 0
    /\ vaultDebt = 0
    /\ eurUsdPrice = 0
    /\ usdcUsdPrice = 0
    /\ alloc = << >>
    /\ calldata = << >>
    /\ gasEstimateResult = << >>
    /\ txHash = << >>
    /\ result = << >>
    /\ thrown = << >>
    /\ exitCode = << >>
    /\ trace = << >>
    /\ retry = [attempt |-> 1, returned |-> << >>, history |-> << >>]
    /\ loop = IterationStart
    /\ resolverResponse = << >>

Build ==
    /\ pc = "buildExecuteCalldata"
    /\ calldata' = <<buildExecuteCalldata(usdcSwap, ethSwap)>>
    /\ pc' = "encoded"
    /\ UNCHANGED <<argv, loop, retry, resolverResponse, config, eureBalance, maxSlippageBps, vaultDebt, eurUsdPrice,
                   usdcUsdPrice, alloc, usdcSwap, ethSwap, gasEstimateResult, txHash,
                   result, thrown, exitCode, trace>>

NextCalldata == Build

SpecCalldata == InitCalldata /\ [][NextCalldata]_vars

DescriptionFields ==
    {"srcToken", "dstToken", "srcReceiver", "dstReceiver", "amount",
     "minReturnAmount", "flags"}

\* the three arguments of one leg against the route they were built from
LegEncoded(executor, desc, data, swap) ==
    /\ DOMAIN desc = DescriptionFields
    /\ IF swap = << >>
       THEN /\ executor = ZeroAddress
            /\ data = "0x"
            /\ desc.amount = 0
            /\ desc.minReturnAmount = 0
            /\ desc.flags = 0
            /\ desc.srcReceiver = ZeroAddress
            /\ desc.dstReceiver = ZeroAddress
       ELSE /\ executor = swap[1].executor
            /\ data = swap[1].executorData
            /\ \A f \in DescriptionFields : desc[f] = swap[1].swapDescription[f]

\* C24: the payload always has the six arguments of execute(); an absent
\* leg is replaced by the zero-address, zero-amount placeholder with empty
\* data, a present leg is copied field by field.
C24_CalldataShape ==
    calldata # << >> =>
        /\ DOMAIN calldata[1] = {"usdcExecutor", "usdcDesc", "usdcData",
                                 "ethExecutor", "ethDesc", "ethData"}
        /\ LegEncoded(calldata[1].usdcExecutor, calldata[1].usdcDesc,
                      calldata[1].usdcData, usdcSwap)
        /\ LegEncoded(calldata[1].ethExecutor, calldata[1].ethDesc,
                      calldata[1].ethData, ethSwap)

\* C24 witness: a payload built from a USDC route and no WETH route
C24_Witness ==
    /\ pc = "encoded"
    /\ usdcSwap # << >>
    /\ usdcSwap[1].executorData = "0xROUTE"
    /\ ethSwap = << >>

(***************************************************************************)
(* getVaultDebtFromResolver as a function of the resolver's answer         *)
(***************************************************************************)
\* borrow amounts, contents of the other words, and lengths of the return
\* data in bytes: empty, whole words short of the borrow word, a cut borrow
\* word, and the struct up to and beyond the borrow word
DebtBorrows == {0, 1, 600, 5000, 1193046}
DebtOthers == {0, 1, 4660}
DebtBytes == {0, 32, 224, 225, 240, 255, 256, 288, 320}
DebtResponses ==
    {Return(ResolverData(b, o, n)) : b \in DebtBorrows, o \in DebtOthers, n \in DebtBytes}
    \cup {Throw(e) : e \in RpcErrors}

InitDebt ==
    /\ pc = "getVaultDebtFromResolver"
    /\ resolverResponse \in {<<r>> : r \in DebtResponses}
    /\ argv = [help |-> FALSE, checkOnly |-> FALSE, dryRunFlag |-> FALSE,
               DRY_RUN |-> "false", envValid |-> TRUE, DCA_ADDRESS |-> "0xDcA"]
    /\ config = << >>
    /\ eureBalance = 0
    /\ maxSlippageBps = 0
    /\ vaultDebt = 0
    /\ eurUsdPrice = 0
    /\ usdcUsdPrice = 0
    /\ alloc = << >>
    /\ usdcSwap = << >>
    /\ ethSwap = << >>
    /\ calldata = << >>
    /\ gasEstimateResult = << >>
    /\ txHash = << >>
    /\ result = << >>
    /\ thrown = << >>
    /\ exitCode = << >>
    /\ trace = << >>
    /\ retry = [attempt |-> 1, returned |-> << >>, history |-> << >>]
    /\ loop = IterationStart

ReadDebt ==
    /\ pc = "getVaultDebtFromResolver"
    /\ vaultDebt' = getVaultDebtFromResolver(resolverResponse[1])
    /\ pc' = "returned"
    /\ UNCHANGED <<argv, loop, retry, resolverResponse, config, eureBalance, maxSlippageBps,
                   eurUsdPrice, usdcUsdPrice, alloc, usdcSwap, ethSwap, calldata,
                   gasEstimateResult, txHash, result, thrown, exitCode, trace>>

NextDebt == ReadDebt

SpecDebt == InitDebt /\ [][NextDebt]_vars

\* the resolver call threw, or its return data ends before the borrow word
ResolverFailed ==
    /\ resolverResponse # << >>
    /\ \/ ~resolverResponse[1].ok
       \/ Len(resolverResponse[1].value[1]) <= 450

\* C25: when the resolver call throws or its data cannot be decoded, the
\* debt is 0, the whole balance goes to the collateral leg, and an error
\* that reaches main's catch was thrown by a later call, not by the resolver
\* read.
C25_ResolverFailureIsZeroDebt ==
    ResolverFailed =>
        /\ vaultDebt = 0
        /\ alloc # << >>
        /\ alloc[1].eureForUsdc = 0
        /\ alloc[1].eureForEth = eureBalance
        /\ pc = "main_catch" => trace[Len(trace)].op # "positionByNftId"

\* C25 witness: the resolver call threw and the run went on with the
\* zero-debt allocation of a positive balance
C25_Witness ==
    /\ resolverResponse # << >>
    /\ ~resolverResponse[1].ok
    /\ pc = "fetch_usdc"
    /\ eureBalance > 0

\* the bytes of the return data, and the big-endian unsigned integer of the
\* n bytes from byte offset off
ByteAt(res, k) == HexValue(res[3 + 2 * k]) * 16 + HexValue(res[4 + 2 * k])
RECURSIVE UintBE(_, _, _)
UintBE(res, off, n) ==
    IF n = 0 THEN 0 ELSE UintBE(res, off, n - 1) * 256 + ByteAt(res, off + n - 1)
ByteLength(res) == (Len(res) - 2) \div 2

\* C26: for return data of at least 256 bytes the debt is the unsigned
\* integer of bytes 224..255, whatever the other bytes are.
C26_DebtIsWordAtOffset224 ==
    (/\ pc = "returned"
     /\ resolverResponse[1].ok
     /\ ByteLength(resolverResponse[1].value[1]) >= 256) =>
        vaultDebt = UintBE(resolverResponse[1].value[1], 224, 32)

\* C26 witness: exactly 256 bytes whose other words hold a different value
C26_Witness ==
    /\ pc = "returned"
    /\ resolverResponse = <<Return(ResolverData(5000, 4660, 256))>>
    /\ vaultDebt = 5000

\* C27: return data shorter than 256 bytes is treated as a failed read: the
\* debt reader returns 0 and no value decoded from the bytes present.
C27_ShortDataIsFailure ==
    (/\ pc = "returned"
     /\ resolverResponse[1].ok
     /\ ByteLength(resolverResponse[1].value[1]) < 256) => vaultDebt = 0

(***************************************************************************)
(* Two invocations in a row, the second one given the responses of the     *)
(* first                                                                   *)
(***************************************************************************)
\* what the first invocation read and what it computed
RunRecord ==
    [trace |-> trace, eureBalance |-> eureBalance,
     resolverResponse |-> resolverResponse, eurUsdPrice |-> eurUsdPrice,
     usdcUsdPrice |-> usdcUsdPrice, alloc |-> alloc,
     gasEstimateResult |-> gasEstimateResult]

\* no submission: both invocations are dry runs
InitTwice ==
    /\ Init
    /\ ~argv.help
    /\ ~argv.checkOnly
    /\ argv.envValid
    /\ argv.dryRunFlag
    /\ argv.DRY_RUN = "true"

\* the first process has exited; the scheduler starts the command again as
\* a new process
Rerun ==
    /\ pc = "exit"
    /\ retry.history = << >>
    /\ retry' = [retry EXCEPT !.history = <<RunRecord>>]
    /\ pc' = "main"
    /\ config' = << >>
    /\ eureBalance' = 0
    /\ maxSlippageBps' = 0
    /\ vaultDebt' = 0
    /\ eurUsdPrice' = 0
    /\ usdcUsdPrice' = 0
    /\ alloc' = << >>
    /\ usdcSwap' = << >>
    /\ ethSwap' = << >>
    /\ calldata' = << >>
    /\ gasEstimateResult' = << >>
    /\ txHash' = << >>
    /\ result' = << >>
    /\ thrown' = << >>
    /\ exitCode' = << >>
    /\ trace' = << >>
    /\ resolverResponse' = << >>
    /\ UNCHANGED <<argv, loop>>

\* the chain, the oracles and the aggregator answer the call a as they
\* answered the call b
SameAnswer(a, b) ==
    /\ a.op = b.op
    /\ a.ok = b.ok
    /\ a.op \in {"canExecute", "1inch.swap"} => a.data = b.data

\* the second invocation has got the answers of the first so far
Replayed ==
    retry.history # << >> =>
        LET first == retry.history[1]
        IN  /\ Len(trace) <= Len(first.trace)
            /\ \A i \in 1..Len(trace) : SameAnswer(trace[i], first.trace[i])
            /\ eureBalance \in {0, first.eureBalance}
            /\ resolverResponse \in {<< >>, first.resolverResponse}
            /\ eurUsdPrice \in {0, first.eurUsdPrice}
            /\ usdcUsdPrice \in {0, first.usdcUsdPrice}

Replay == Next /\ Replayed'

NextTwice ==
    \/ Replay
    \/ Rerun

SpecTwice == InitTwice /\ [][NextTwice]_vars

LastExecutionUpdated ==
    \E i \in 1..Len(loop.published) :
        loop.published[i].topic = "fluiddca/status/last_execution"

SentInIteration ==
    \E i \in 1..Len(retry.history) : retry.history[i].submitted

\* C29: an iteration publishes the last_execution timestamp only if one of
\* its attempts sent a transaction; a dry-run iteration never publishes it.
C29_LastExecutionOnlyWhenSent ==
    LastExecutionUpdated => (SentInIteration /\ ~argv.dryRunFlag)

(***************************************************************************)
(* run_with_retry around a command with any exit code                      *)
(***************************************************************************)
\* exit codes of "$@": the two run_with_retry tests for, and others
CommandExitCodes == {0, 1, 2, 3, 127, 255}

\* "$@"; exit_code=$?
RunCommand ==
    /\ pc = "main"
    /\ loop.EXIT_CODE = << >>
    /\ \E code \in CommandExitCodes : exitCode' = <<code>>
    /\ pc' = "exit"
    /\ UNCHANGED <<argv, loop, retry, resolverResponse, config, engineVars,
                   result, thrown, trace>>

NextRetry ==
    \/ RunCommand
    \/ RetryReturn
    \/ RetryAgain
    \/ CdFailed
    \/ FinishIteration

SpecRetry == InitTick /\ [][NextRetry]_vars

\* C30: after an attempt that exited with 0 or 2 no other attempt starts and
\* run_with_retry returns that code; an attempt is followed by another one
\* only if its exit code is neither 0 nor 2.
C30_ZeroAndTwoReturnAtOnce ==
    [][/\ (pc = "exit" /\ exitCode[1] \in {0, 2})
            => (pc' # "main" /\ retry'.returned = exitCode
                /\ retry'.attempt = retry.attempt)
       /\ (pc = "exit" /\ pc' = "main") => exitCode[1] \notin {0, 2}]_vars

\* C30 witness: the second attempt exited with 2 and run_with_retry returned
\* 2 without a third attempt
C30_Witness ==
    /\ retry.returned = <<2>>
    /\ Len(retry.history) = 2
    /\ retry.history[1].exitCode \notin {0, 2}
    /\ retry.history[2].exitCode = 2
    /\ retry.attempt = 2

\* every attempt so far failed with a code other than 0 and 2
AllAttemptsFailed ==
    \A i \in 1..Len(retry.history) : retry.history[i].exitCode \notin {0, 2}

\* C31: run_with_retry runs the command at most 3 times; when every attempt
\* failed with a code other than 0 and 2 it has slept 30 seconds after the
\* first and 60 seconds after the second, not after the third, and returns
\* 1; the main loop's EXIT_CODE is 0, 1 or 2.
C31_ThreeAttemptsThenOne ==
    /\ Len(retry.history) <= 3
    /\ (pc \in {"main", "exit"}) => Len(retry.history) <= 2
    /\ (retry.returned # << >> /\ AllAttemptsFailed) =>
           /\ Len(retry.history) = 3
           /\ retry.history[1].delay = 30
           /\ retry.history[2].delay = 60
           /\ retry.history[3].delay = 0
           /\ retry.returned = <<1>>
    /\ (loop.EXIT_CODE # << >>) => loop.EXIT_CODE[1] \in {0, 1, 2}

\* C31 witness: three attempts failed with codes other than 1 and the main
\* loop has stored the return code
C31_Witness ==
    /\ retry.returned # << >>
    /\ Len(retry.history) = 3
    /\ \A i \in 1..3 : retry.history[i].exitCode \in {3, 127, 255}
    /\ loop.EXIT_CODE = <<1>>

(***************************************************************************)
(* The earlier scheduler script (src/unnamed/part_000)                     *)
(***************************************************************************)
\* $? after `if "$@"; then return 0; fi` when the command failed: the exit
\* status of an if command none of whose conditions tested true is zero
StatusAfterIf(code) == 0

\* local exit_code=$? of the earlier run_with_retry
Part000ExitCodeSeen == StatusAfterIf(exitCode[1])

\* if "$@"; then return 0; [ $exit_code -eq 2 ] && return 2; after the
\* last attempt return 1. PIPESTATUS[0] is the return code.
Part000RetryReturn ==
    /\ pc = "exit"
    /\ retry.returned = << >>
    /\ \/ /\ exitCode[1] = 0
          /\ retry' = [retry EXCEPT !.returned = <<0>>,
                                    !.history = Append(@, AttemptSummary(0))]
          /\ loop' = [loop EXCEPT !.EXIT_CODE = <<0>>]
       \/ /\ exitCode[1] # 0
          /\ Part000ExitCodeSeen = 2
          /\ retry' = [retry EXCEPT !.returned = <<2>>,
                                    !.history = Append(@, AttemptSummary(0))]
          /\ loop' = [loop EXCEPT !.EXIT_CODE = <<2>>]
       \/ /\ exitCode[1] # 0
          /\ Part000ExitCodeSeen # 2
          /\ retry.attempt >= max_attempts
          /\ retry' = [retry EXCEPT !.returned = <<1>>,
                                    !.attempt = @ + 1,
                                    !.history = Append(@, AttemptSummary(0))]
          /\ loop' = [loop EXCEPT !.EXIT_CODE = <<1>>]
    /\ pc' = "finish"
    /\ ProcessGone
    /\ UNCHANGED argv

\* sleep $delay; ((attempt++)); the command again
Part000RetryAgain ==
    /\ pc = "exit"
    /\ retry.returned = << >>
    /\ exitCode[1] # 0
    /\ Part000ExitCodeSeen # 2
    /\ retry.attempt < max_attempts
    /\ retry' = [retry EXCEPT !.attempt = @ + 1,
                              !.history = Append(@, AttemptSummary(delays[retry.attempt]))]
    /\ pc' = "main"
    /\ ProcessGone
    /\ UNCHANGED <<argv, loop>>

\* LAST_STATUS of the earlier main loop
Part000StatusOf(code) ==
    IF code = 0 THEN "success"
    ELSE IF code = 2 THEN "waiting"
    ELSE "error"

\* the rest of the earlier iteration: status, notification, sensor update
Part000FinishIteration ==
    /\ pc = "finish"
    /\ loop.LAST_STATUS = << >>
    /\ \E options \in LoopOptions, notifyOk \in BOOLEAN, delivered \in 0..3 :
         LET code == loop.EXIT_CODE[1]
             status == Part000StatusOf(code)
             pubs == update_sensors(status)
         IN  /\ delivered <= Len(pubs)
             /\ loop' =
                  [SHUTDOWN |-> loop.SHUTDOWN,
                   EXIT_CODE |-> loop.EXIT_CODE,
                   LAST_STATUS |-> <<status>>,
                   options |-> <<options>>,
                   notifications |->
                     IF code = 0 /\ options.NOTIFY_ON_SUCCESS
                     THEN <<[kind |-> "success", exitCode |-> code, ok |-> notifyOk]>>
                     ELSE IF code \notin {0, 2} /\ options.NOTIFY_ON_ERROR
                     THEN <<[kind |-> "error", exitCode |-> code, ok |-> notifyOk]>>
                     ELSE << >>,
                   published |->
                     IF options.MQTT_SENSORS /\ options.mqttAvailable
                     THEN SubSeq(pubs, 1, delivered)
                     ELSE << >>]
    /\ pc' = "sleep"
    /\ UNCHANGED <<argv, retry, resolverResponse, config, engineVars, result,
                   thrown, exitCode, trace>>

NextPart000 ==
    \/ RunCommand
    \/ Part000RetryReturn
    \/ Part000RetryAgain
    \/ Part000FinishIteration

SpecPart000 == InitTick /\ [][NextPart000]_vars

\* C32: in the earlier script an attempt that exited with 2 is the last one
\* and run_with_retry returns 2; the iteration then records the status
\* "waiting" and sends no notification.
C32_TwoIsWaitingNotRetried ==
    /\ \A i \in 1..Len(retry.history) :
           retry.history[i].exitCode = 2 =>
               (i = Len(retry.history) /\ retry.returned = <<2>>)
    /\ (/\ loop.LAST_STATUS # << >>
        /\ retry.history # << >>
        /\ retry.history[Len(retry.history)].exitCode = 2)
       => (loop.LAST_STATUS = <<"waiting">> /\ loop.notifications = << >>)

(***************************************************************************)
(* Status and notifications of an iteration of run.sh                      *)
(***************************************************************************)
NotificationKinds == {loop.notifications[i].kind : i \in 1..Len(loop.notifications)}

PublishedStates ==
    {loop.published[i].payload :
        i \in {j \in 1..Len(loop.published) :
                  loop.published[j].topic = "fluiddca/status/state"}}

Signal ==
    /\ pc # "stopped"
    /\ ~loop.SHUTDOWN
    /\ loop' = [loop EXCEPT !.SHUTDOWN = TRUE]
    /\ pc' = IF pc = "sleeping" THEN "loop_test" ELSE pc
    /\ UNCHANGED <<argv, retry, resolverResponse, config, engineVars, result,
                   thrown, exitCode, trace>>

\* if [ "$SHUTDOWN" = true ]; then break; fi; sleep ... & wait $!
ShutdownCheck ==
    /\ pc = "sleep"
    /\ pc' = IF loop.SHUTDOWN THEN "stopped" ELSE "sleeping"
    /\ UNCHANGED <<argv, loop, retry, resolverResponse, config, engineVars,
                   result, thrown, exitCode, trace>>

\* the sleep between two iterations has elapsed
Wake ==
    /\ pc = "sleeping"
    /\ pc' = "loop_test"
    /\ UNCHANGED <<argv, loop, retry, resolverResponse, config, engineVars,
                   result, thrown, exitCode, trace>>

\* while [ "$SHUTDOWN" = false ]: the next iteration calls run_with_retry
\* anew, otherwise the script ends
LoopTest ==
    /\ pc = "loop_test"
    /\ IF loop.SHUTDOWN
       THEN /\ pc' = "stopped"
            /\ UNCHANGED <<loop, retry>>
       ELSE /\ pc' = "main"
            /\ loop' = IterationStart
            /\ retry' = [attempt |-> 1, returned |-> << >>, history |-> << >>]
    /\ UNCHANGED <<argv, resolverResponse, config, engineVars, result, thrown,
                   exitCode, trace>>

NextShutdown ==
    \/ RunCommand
    \/ RetryReturn
    \/ RetryAgain
    \/ CdFailed
    \/ FinishIteration
    \/ Signal
    \/ ShutdownCheck
    \/ Wake
    \/ LoopTest

SpecShutdown == InitTick /\ [][NextShutdown]_vars

\* C34: once the signal has been received no execution attempt is started,
\* neither the first attempt of a new iteration nor a retry attempt of
\* run_with_retry.
C34_NoAttemptAfterSignal ==
    [][loop.SHUTDOWN => ~(pc # "main" /\ pc' = "main")]_vars

(***************************************************************************)
(* More than one submission in an iteration                                *)
(***************************************************************************)
\* the attempts of the iteration that sent a transaction, the running one
\* included
SubmissionsInIteration ==
    Cardinality({i \in 1..Len(retry.history) : retry.history[i].submitted})
    + (IF Submitted THEN 1 ELSE 0)

\* C35: all attempts of one call of run_with_retry together submit at most
\* one transaction.
C35_AtMostOneSubmissionPerTick ==
    SubmissionsInIteration <= 1

(***************************************************************************)
(* Nothing to swap                                                         *)
(***************************************************************************)
BothAmountsZero ==
    /\ alloc # << >>
    /\ alloc[1].eureForUsdc = 0
    /\ alloc[1].eureForEth = 0

\* the payload of execute() with a placeholder in both legs
TwoPlaceholderLegs(data) ==
    /\ data.usdcExecutor = ZeroAddress
    /\ data.usdcDesc.amount = 0
    /\ data.ethExecutor = ZeroAddress
    /\ data.ethDesc.amount = 0

\* C36: when both allocated amounts are zero the engine returns the failure
\* "No swaps needed" and builds no calldata, estimates no gas, simulates and
\* submits nothing; no transaction with two placeholder legs is submitted.
C36_NoSwapsNeeded ==
    /\ BothAmountsZero =>
         /\ calldata = << >>
         /\ gasEstimateResult = << >>
         /\ ~Called("estimateGas")
         /\ ~Called("call")
         /\ ~Called("sendTransaction")
         /\ thrown = << >>
         /\ pc \in {"main_result", "exit"} =>
              /\ result # << >>
              /\ ~result[1].success
              /\ result[1].error = <<"No swaps needed">>
    /\ \A i \in Events("sendTransaction") : ~TwoPlaceholderLegs(trace[i].data[1])

\* C36 witness: an eligible contract with balance 0; the run ended with
\* "No swaps needed"
C36_Witness ==
    /\ pc = "exit"
    /\ eureBalance = 0
    /\ BothAmountsZero
    /\ trace[5].op = "canExecute"
    /\ trace[5].data = <<TRUE>>
    /\ result[1].error = <<"No swaps needed">>

(***************************************************************************)
(* The gas price of the two gates                                          *)
(***************************************************************************)
\* the provider reported to the solvency gate the price the cost gate's
\* estimate was computed with (no price counting as 0)
SamePriceReported(gate) ==
    Coalesce(gate.feeGasPrice, 0) = gasEstimateResult[1].gasPrice

\* C37: the solvency gate evaluates the gas price the cost gate evaluated;
\* here for the runs in which the provider reported the same price to both.
C37_GatesUseSameGasPrice ==
    \A i \in Events("gate.solvency") :
        SamePriceReported(trace[i].data[1]) =>
            trace[i].data[1].estimatedCost =
                gasEstimateResult[1].gasEstimate * gasEstimateResult[1].gasPrice

(***************************************************************************)
(* A throw inside estimateGasCostUsd                                       *)
(***************************************************************************)
\* the i-th call is one of the three calls of estimateGasCostUsd and threw;
\* the solvency gate's own getFeeData comes after its getBalance
EstimateCallThrew(i) ==
    /\ ~trace[i].ok
    /\ \/ trace[i].op = "estimateGas"
       \/ /\ trace[i].op = "getFeeData"
          /\ \A j \in 1..(i - 1) : trace[j].op # "getBalance"
       \/ /\ trace[i].op = "latestRoundData"
          /\ trace[i].to = ORACLES.ETH_USD

\* C38: when one of the three calls of estimateGasCostUsd throws, the engine
\* returns a failure that starts with "Gas estimation failed", in live and
\* in dry-run mode, and that call is the last one: no cost check, solvency
\* check, simulation or submission follows.
C38_GasEstimationFailure ==
    \A i \in 1..Len(trace) :
        EstimateCallThrew(i) =>
            /\ i = Len(trace)
            /\ gasEstimateResult = << >>
            /\ thrown = << >>
            /\ pc \in {"main_result", "exit"}
            /\ result # << >>
            /\ ~result[1].success
            /\ result[1].error[1] = "Gas estimation failed"
            /\ ~Called("gate.cost")
            /\ ~Called("gate.solvency")
            /\ ~Called("getBalance")
            /\ ~Called("call")
            /\ ~Called("sendTransaction")

\* C38 witness: a dry run in which the ETH/USD oracle read threw
C38_Witness ==
    /\ pc = "exit"
    /\ config # << >>
    /\ config[1].dryRun
    /\ trace # << >>
    /\ trace[Len(trace)].op = "latestRoundData"
    /\ trace[Len(trace)].to = ORACLES.ETH_USD
    /\ ~trace[Len(trace)].ok
    /\ result # << >>
    /\ result[1].error[1] = "Gas estimation failed"

====
